---- MODULE Spec2Model ----
(***************************************************************************)
(* Lagged ("target") network synchronization in the tianshou algorithm     *)
(* classes: construction (registration of lagged networks, creation of     *)
(* optimizers), preprocess_batch (target-Q reads) and _update_with_batch   *)
(* (gradient steps and lagged-network updates) of                          *)
(*   DQN, QRDQN, IQN, FQF, DiscreteCQL, DiscreteBCQ, DiscreteCRR           *)
(*     (LaggedNetworkFullUpdateAlgorithmMixin), and                        *)
(*   DDPG, TD3, REDQ, DiscreteSAC                                          *)
(*     (LaggedNetworkPolyakUpdateAlgorithmMixin).                          *)
(*                                                                         *)
(* A network's parameters are abstracted to one integer in 0..MaxParam.    *)
(* tau is the rational tau / TauDen.                                       *)
(*                                                                         *)
(* Spec covers construction and the training steps. SpecReturns covers the *)
(* return / advantage estimation of preprocess_batch on successive         *)
(* batches: the n-step return (Q-learning family, DiscreteBCQ, off-policy  *)
(* actor-critic family), the Monte-Carlo return (Reinforce, DiscreteCRR)   *)
(* and GAE (A2C), with the running statistics of return normalization.     *)
(* Discount factors and lambdas are integers, so the range [0, 1] holds    *)
(* the two values 0 and 1.                                                 *)
(*                                                                         *)
(* SpecPolicy covers the action selection of DQNPolicy (forward,           *)
(* compute_q_value, add_exploration_noise) and DiscreteBCQPolicy (forward) *)
(* on arbitrary network outputs, in floating-point arithmetic. SpecReplay  *)
(* and SpecPrioritized cover the circular replay buffer the collector      *)
(* fills and its prioritized variant.                                      *)
(***************************************************************************)
EXTENDS Integers, Sequences, FiniteSets, TLC

\* ---------------------------------------------------------------- bounds
MaxParam == 2       \* parameter values are 0..MaxParam
MaxFreq == 3        \* target_update_freq is drawn from 0..MaxFreq
MaxActorFreq == 2   \* update_actor_freq / actor_delay are drawn from 1..MaxActorFreq
MaxCalls == 6       \* number of training steps explored
BatchSize == 2      \* number of indices in a sampled batch
TauDen == 2         \* tau is drawn from {-1/TauDen, 0, ..., 1, (TauDen+1)/TauDen}
MaxGamma == 2       \* discount factors and GAE lambdas are the integers -1..MaxGamma
MaxNStep == 2       \* estimation_step is drawn from 0..MaxNStep
MaxEnsemble == 2    \* ensemble_size is 1..MaxEnsemble, subset_size 0..MaxEnsemble+1
MaxRepeat == 2      \* optimizer steps of one on-policy _update_with_batch call
BatchLen == 3       \* a rollout batch holds 1..BatchLen transitions, in chronological order
MaxRew == 1         \* the reward of a batch's first transition; the i-th is MaxRew + i - 1
MaxBatches == 2     \* number of batches preprocessed in a row
MaxBatchsize == 2   \* max_batchsize is drawn from 1..MaxBatchsize

Params == 0..MaxParam
Grads == 0..MaxParam
TauNums == (0 - 1)..(TauDen + 1)
NoParam == 0 - 1
GammaVals == (0 - 1)..MaxGamma
NStepVals == 0..MaxNStep
EnsembleVals == 1..MaxEnsemble
SubsetVals == 0..(MaxEnsemble + 1)

\* ------------------------------------------------------------ algorithms
QLearningAlgs == {"DQN", "QRDQN", "IQN", "FQF", "DiscreteCQL"}
FullUpdateAlgs == QLearningAlgs \cup {"DiscreteBCQ", "DiscreteCRR"}
DualCriticAlgs == {"TD3", "DiscreteSAC"}
PolyakAlgs == {"DDPG", "REDQ"} \cup DualCriticAlgs
OnPolicyAlgs == {"Reinforce", "A2C"}
Algs == FullUpdateAlgs \cup PolyakAlgs \cup OnPolicyAlgs

SourceNets == {"model", "fraction_model", "imitator", "actor", "critic", "critic2"}
ShadowNets == {"model_old", "actor_old", "critic_old", "critic2_old"}
Nets == SourceNets \cup ShadowNets

VARIABLES
    alg,          \* the algorithm class being constructed / trained
    tau,          \* constructor argument tau (numerator over TauDen); 0 for full-update algorithms
    freq,         \* constructor argument target_update_freq; 0 for Polyak algorithms
    actorFreq,    \* update_actor_freq (TD3) / actor_delay (REDQ); 1 otherwise
    critic2Given, \* whether the critic2 argument is given (dual-critic algorithms)
    pc,           \* "new" | "rejected" | "idle" | "update" | "error"
    error,        \* the exception raised, "" if none
    param,        \* network name -> parameter value, NoParam if the network does not exist
    pairs,        \* the (source, shadow) pairs registered by _add_lagged_network
    old,          \* shadow attribute (model_old, ...) -> network it refers to, "None", or "unset"
    optims,       \* the optimizers created: records [name, nets]
    iter,         \* _iter (full-update algorithms)
    cnt,          \* _cnt (TD3)
    critic_gradient_step,  \* REDQ
    batch,        \* batch.returns of the batch being processed, <<>> if absent
    trace,        \* events (read / sync / grad) of the current training step, in order
    callLog,      \* one entry per _update_with_batch call: [iter, nsync, steps]
    ver,          \* number of _update_lagged_network_weights calls so far
    nupd,         \* shadow network -> number of updates it has received
    gamma,        \* constructor argument discount_factor / gamma
    estimation_step,  \* constructor argument estimation_step; 1 where there is none
    gae_lambda,   \* constructor argument gae_lambda (A2C); 1 otherwise
    ensemble_size,    \* REDQ; 1 otherwise
    subset_size,  \* REDQ; 1 otherwise
    rew_norm,     \* constructor argument reward_normalization
    max_batchsize,    \* constructor argument max_batchsize (A2C); 1 otherwise
    ret_rms,      \* the RunningMeanStd of the returns: [count, sum, sumsq]
    buffer,       \* the batch being preprocessed (buffer[indices]), <<>> if none
    result,       \* what the last preprocessing added to the batch, <<>> if none
    fitted,       \* the unnormalized returns ret_rms was updated with, one entry per update
    processed,    \* number of batches preprocessed
    last_actor_loss,  \* _last (TD3) / _last_actor_loss (REDQ); 0 otherwise
    reported,     \* actor_loss of the statistics the last call returned, NoLoss if none
    actor_loss,   \* the loss of the most recent actor update, NoLoss if none
    max_action_num,   \* DQNPolicy / DiscreteBCQPolicy max_action_num, NoActionNum until forward has run
    op,           \* the policy or buffer method called last, "new" before any call
    inp,          \* the arguments of that call
    out,          \* what that call returned
    replay,       \* the replay buffer: [size, index, data, weight, max_prio], <<>> if none
    history       \* per buffer index, whether its priority is still the one add gave it; <<>> if not kept

\* The state of the return / advantage estimation.
engine == <<rew_norm, max_batchsize, ret_rms, buffer, result, fitted, processed>>

\* The actor loss kept for the training statistics.
logging == <<last_actor_loss, reported, actor_loss>>

NoLoss == 0 - 1

\* max_action_num is None.
NoActionNum == 0 - 1

\* The state of the action-selection functions and of the replay buffer.
aux == <<max_action_num, op, inp, out, replay, history>>

\* No policy method has been called and there is no replay buffer.
AuxIdle ==
    /\ max_action_num = NoActionNum
    /\ op = "new"
    /\ inp = <<>>
    /\ out = <<>>
    /\ replay = <<>>
    /\ history = <<>>

\* The hyperparameters added to the constructor arguments above.
hyper == <<gamma, estimation_step, gae_lambda, ensemble_size, subset_size>>

vars == <<alg, tau, freq, actorFreq, critic2Given, pc, error, param, pairs, old, optims,
          iter, cnt, critic_gradient_step, batch, trace, callLog, ver, nupd, hyper,
          engine, logging, aux>>

\* RunningMeanStd(): no sample seen.
RmsInit == [count |-> 0, sum |-> 0, sumsq |-> 0]

\* ------------------------------------------------------------ construction

\* The torch modules held by the policy object (its parameters()).
PolicyNets(a) ==
    CASE a \in {"DQN", "QRDQN", "IQN", "DiscreteCQL"} -> {"model"}
      [] a = "FQF" -> {"model", "fraction_model"}
      [] a = "DiscreteBCQ" -> {"model", "imitator"}
      [] OTHER -> {"actor"}

\* The source networks that exist after construction.
SourcesOf(a) ==
    CASE a \in {"DDPG", "REDQ", "DiscreteCRR", "A2C"} -> {"actor", "critic"}
      [] a \in DualCriticAlgs -> {"actor", "critic", "critic2"}
      [] OTHER -> PolicyNets(a)

\* Initial weights of the source networks handed to the constructor; distinct
\* networks start from distinct values.
NetOffset(n) ==
    CASE n \in {"model", "actor"} -> 0
      [] n \in {"fraction_model", "imitator", "critic"} -> 1
      [] OTHER -> 2

InitialWeight(n, p0) == (p0 + NetOffset(n)) % (MaxParam + 1)

\* Variant: a frequency of 0 also counts as using a target network.
UseTargetNetworkNonNegative(f) == f >= 0

\* QLearningOffPolicyAlgorithm.use_target_network
UseTargetNetwork(f) == f > 0

\* Variant: the policy optimizer also covers the lagged model.
CreatePolicyOptimizerWithShadow(a) == PolicyNets(a) \cup {"model_old"}

\* FQF overrides _create_policy_optimizer to leave out the fraction model.
CreatePolicyOptimizer(a) ==
    IF a = "FQF" THEN {"model"} ELSE PolicyNets(a)

\* Variant: every optimizer is built over all parameters of the algorithm
\* object, which holds the lagged networks as attributes.
OptimizersOverAlgorithm(a) ==
    {[name |-> n, nets |-> SourcesOf(a) \cup ShadowNets] :
        n \in {"optim", "fraction_optim", "policy_optim", "critic_optim", "critic2_optim"}}

\* Optimizers created by the constructors: name and the networks whose
\* parameters they optimize.
Optimizers(a) ==
    CASE a \in QLearningAlgs \ {"FQF"} ->
            {[name |-> "optim", nets |-> CreatePolicyOptimizer(a)]}
      [] a = "FQF" ->
            {[name |-> "optim", nets |-> CreatePolicyOptimizer(a)],
             [name |-> "fraction_optim", nets |-> {"fraction_model"}]}
      [] a = "DiscreteBCQ" ->
            {[name |-> "optim", nets |-> PolicyNets(a)]}
      [] a = "DiscreteCRR" ->
            {[name |-> "optim", nets |-> PolicyNets(a) \cup {"critic"}]}
      [] a \in {"DDPG", "REDQ"} ->
            {[name |-> "policy_optim", nets |-> PolicyNets(a)],
             [name |-> "critic_optim", nets |-> {"critic"}]}
      [] a = "Reinforce" ->
            {[name |-> "optim", nets |-> PolicyNets(a)]}
      [] a = "A2C" ->
            {[name |-> "optim", nets |-> PolicyNets(a) \cup {"critic"}]}
      [] OTHER ->
            {[name |-> "policy_optim", nets |-> PolicyNets(a)],
             [name |-> "critic_optim", nets |-> {"critic"}],
             [name |-> "critic2_optim", nets |-> {"critic2"}]}

\* The (source, shadow) pairs the constructors register with _add_lagged_network.
QLearningLagged(f) ==
    IF UseTargetNetwork(f) THEN {<<"model", "model_old">>} ELSE {}

DiscreteBCQLagged(f) ==
    IF f > 0 THEN {<<"model", "model_old">>} ELSE {}

DiscreteCRRLagged(f) ==
    IF f > 0 THEN {<<"actor", "actor_old">>, <<"critic", "critic_old">>} ELSE {}

ActorCriticLagged == {<<"critic", "critic_old">>}

ActorDualCriticsLagged == ActorCriticLagged \cup {<<"critic2", "critic2_old">>}

\* Variant: actor_old is not registered with the manager.
DDPGLaggedCriticOnly == ActorCriticLagged

DDPGLagged == ActorCriticLagged \cup {<<"actor", "actor_old">>}

TD3Lagged == ActorDualCriticsLagged \cup {<<"actor", "actor_old">>}

Lagged(a, f) ==
    CASE a \in QLearningAlgs -> QLearningLagged(f)
      [] a = "DiscreteBCQ" -> DiscreteBCQLagged(f)
      [] a = "DiscreteCRR" -> DiscreteCRRLagged(f)
      [] a = "DDPG" -> DDPGLagged
      [] a = "TD3" -> TD3Lagged
      [] a = "REDQ" -> ActorCriticLagged
      [] a \in OnPolicyAlgs -> {}
      [] OTHER -> ActorDualCriticsLagged

\* The shadow attributes an algorithm class assigns, and what they hold.
\* model_old is None for a Q-learning algorithm without target network and is
\* never assigned by DiscreteBCQ when target_update_freq = 0.
ShadowAttrs(a, f) ==
    [s \in ShadowNets |->
        IF \E pr \in Lagged(a, f) : pr[2] = s THEN s
        ELSE IF a \in QLearningAlgs /\ s = "model_old" THEN "None"
        ELSE "unset"]

\* Variant: tau = 0 is rejected as well.
TauAcceptedPositive(t) == 0 < t /\ t <= TauDen

\* tau is validated by ActorCriticOffPolicyAlgorithm.__init__.
TauAccepted(t) == 0 <= t /\ t <= TauDen

\* assert 0.0 <= discount_factor <= 1.0
GammaAccepted(g) == 0 <= g /\ g <= 1

\* The classes whose constructor (or the DiscountedReturnComputation it
\* builds) asserts the range of the discount factor;
\* ActorCriticOnPolicyAlgorithm.__init__ stores discount_factor unchecked.
ValidatesGamma(a) == a # "A2C"

\* assert estimation_step > 0
EstimationStepAccepted(n) == n > 0

\* The classes whose constructor asserts estimation_step;
\* ActorCriticOffPolicyAlgorithm.__init__ stores estimation_step unchecked.
ValidatesEstimationStep(a) == a \in QLearningAlgs \cup {"DiscreteBCQ"}

\* assert 0.0 <= gae_lambda <= 1.0
LambdaAccepted(l) == 0 <= l /\ l <= 1

\* Variant: only the lower bound of subset_size is tested.
SubsetSizeAcceptedNoUpper(sub, ens) == 0 < sub

\* REDQ.__init__: if not 0 < subset_size <= ensemble_size: raise ValueError
SubsetSizeAccepted(sub, ens) == 0 < sub /\ sub <= ens

\* The hyperparameters as one record.
Hyper(g, n, l, ens, sub) ==
    [gamma |-> g, estimation_step |-> n, gae_lambda |-> l,
     ensemble_size |-> ens, subset_size |-> sub]

\* The exception the constructor raises, "" if it returns; the tests are made
\* in the order of the constructor's statements.
\* DiscreteCRR with target_update_freq = 0 evaluates self.actor, an attribute
\* that neither DiscreteCRR nor its policy-holding base assigns.
ConstructorError(a, t, f, h) ==
    CASE a = "REDQ" /\ ~SubsetSizeAccepted(h.subset_size, h.ensemble_size) -> "ValueError"
      [] a = "A2C" /\ ~LambdaAccepted(h.gae_lambda) -> "AssertionError"
      [] a \in PolyakAlgs /\ ~TauAccepted(t) -> "AssertionError"
      [] ValidatesGamma(a) /\ ~GammaAccepted(h.gamma) -> "AssertionError"
      [] ValidatesEstimationStep(a) /\ ~EstimationStepAccepted(h.estimation_step) ->
            "AssertionError"
      [] a = "DiscreteCRR" /\ ~(f > 0) -> "AttributeError"
      [] OTHER -> ""

\* The optimizers already created when the constructor raises e: the
\* Q-learning family and DiscreteBCQ create self.optim before their
\* assertions, DiscreteCRR before it reads self.actor; the other tests come
\* first in their constructors.
OptimizersBeforeError(a, e) ==
    CASE a \in QLearningAlgs \cup {"DiscreteBCQ"} -> {o \in Optimizers(a) : o.name = "optim"}
      [] a = "DiscreteCRR" /\ e = "AttributeError" -> Optimizers(a)
      [] OTHER -> {}

\* _add_lagged_network(source): the shadow is a deep copy of the source.
AddLaggedNetworks(p, prs) ==
    [n \in Nets |->
        IF \E pr \in prs : pr[2] = n
        THEN p[(CHOOSE pr \in prs : pr[2] = n)[1]]
        ELSE p[n]]

SourceWeights(a, p0, c2) ==
    [n \in Nets |->
        IF n \notin SourcesOf(a) THEN NoParam
        ELSE IF n = "critic2" /\ ~c2 THEN InitialWeight("critic", p0)
        ELSE InitialWeight(n, p0)]

Init ==
    /\ alg \in Algs
    /\ tau \in IF alg \in PolyakAlgs THEN TauNums ELSE {0}
    /\ freq \in IF alg \in FullUpdateAlgs THEN 0..MaxFreq ELSE {0}
    /\ actorFreq \in IF alg \in {"TD3", "REDQ"} THEN 1..MaxActorFreq ELSE {1}
    /\ critic2Given \in IF alg \in DualCriticAlgs THEN BOOLEAN ELSE {FALSE}
    /\ pc = "new"
    /\ error = ""
    /\ param = [n \in Nets |-> NoParam]
    /\ pairs = {}
    /\ old = [s \in ShadowNets |-> "unset"]
    /\ optims = {}
    /\ iter = 0
    /\ cnt = 0
    /\ critic_gradient_step = 0
    /\ batch = <<>>
    /\ trace = <<>>
    /\ callLog = <<>>
    /\ ver = 0
    /\ nupd = [s \in ShadowNets |-> 0]
    /\ gamma \in GammaVals
    /\ estimation_step \in IF alg \in QLearningAlgs \cup {"DiscreteBCQ"} \cup PolyakAlgs
                            THEN NStepVals ELSE {1}
    /\ gae_lambda \in IF alg = "A2C" THEN GammaVals ELSE {1}
    /\ ensemble_size \in IF alg = "REDQ" THEN EnsembleVals ELSE {1}
    /\ subset_size \in IF alg = "REDQ" THEN SubsetVals ELSE {1}
    /\ rew_norm = FALSE
    /\ max_batchsize = 1
    /\ ret_rms = RmsInit
    /\ buffer = <<>>
    /\ result = <<>>
    /\ fitted = <<>>
    /\ processed = 0
    /\ last_actor_loss = 0
    /\ reported = NoLoss
    /\ actor_loss = NoLoss
    /\ AuxIdle

\* __init__ of the algorithm class.
Construct ==
    /\ pc = "new"
    /\ LET e == ConstructorError(alg, tau, freq,
                Hyper(gamma, estimation_step, gae_lambda, ensemble_size, subset_size)) IN
        IF e # ""
        THEN /\ pc' = "rejected"
             /\ error' = e
             /\ optims' = OptimizersBeforeError(alg, e)
             /\ UNCHANGED <<param, pairs, old>>
        ELSE \E p0 \in Params :
             /\ pc' = "idle"
             /\ error' = ""
             /\ pairs' = Lagged(alg, freq)
             /\ param' = AddLaggedNetworks(SourceWeights(alg, p0, critic2Given),
                                           Lagged(alg, freq))
             /\ old' = ShadowAttrs(alg, freq)
             /\ optims' = Optimizers(alg)
    /\ UNCHANGED <<aux, hyper, engine, logging, alg, tau, freq, actorFreq, critic2Given, iter, cnt,
                   critic_gradient_step, batch, trace, callLog, ver, nupd>>

\* ------------------------------------------------- lagged-network manager

ShadowsOf(prs) == {pr[2] : pr \in prs}

SourceOf(prs, s) == (CHOOSE pr \in prs : pr[2] = s)[1]

\* Full update: every registered shadow is overwritten with its source.
FullUpdate(p, prs) ==
    [n \in Nets |-> IF n \in ShadowsOf(prs) THEN p[SourceOf(prs, n)] ELSE p[n]]

\* Variant: the weights of source and shadow are exchanged.
PolyakUpdateSwapped(p, prs, t) ==
    [n \in Nets |->
        IF n \in ShadowsOf(prs)
        THEN ((TauDen - t) * p[SourceOf(prs, n)] + t * p[n]) \div TauDen
        ELSE p[n]]

\* Polyak update: shadow <- tau * source + (1 - tau) * shadow, for every pair.
PolyakUpdate(p, prs, t) ==
    [n \in Nets |->
        IF n \in ShadowsOf(prs)
        THEN (t * p[SourceOf(prs, n)] + (TauDen - t) * p[n]) \div TauDen
        ELSE p[n]]

\* _update_lagged_network_weights() of the mixin the algorithm class inherits.
UpdateLaggedNetworkWeights(a, t, p, prs) ==
    IF a \in PolyakAlgs THEN PolyakUpdate(p, prs, t) ELSE FullUpdate(p, prs)

\* ------------------------------------------------------ steps of a handler
\* A handler is evaluated as a chain of steps over a record
\*   [p: parameters, tr: trace, v: number of lagged updates, nu: updates per shadow].

NoSnap == <<>>

\* An event: its kind, the batch index (reads), the networks touched, the
\* network / optimizer it is named after, the number of lagged updates done,
\* and (sync only) the parameters right before and right after it.
Ev(e, i, ns, f, v, b, s) ==
    [ev |-> e, idx |-> i, nets |-> ns, from |-> f, ver |-> v, pre |-> b, snap |-> s]

Here == [p |-> param, tr |-> trace, v |-> ver, nu |-> nupd]

\* self._update_lagged_network_weights()
Sync(st) ==
    LET p2 == UpdateLaggedNetworkWeights(alg, tau, st.p, pairs) IN
    [p |-> p2,
     tr |-> Append(st.tr, Ev("sync", 0, ShadowsOf(pairs), "", st.v + 1, st.p, p2)),
     v |-> st.v + 1,
     nu |-> [s \in ShadowNets |-> IF s \in ShadowsOf(pairs) THEN st.nu[s] + 1 ELSE st.nu[s]]]

\* An optimizer step moves exactly the parameters the optimizer was built over.
OptimStep(p, ns, g) ==
    [n \in Nets |-> IF n \in ns THEN (p[n] + g) % (MaxParam + 1) ELSE p[n]]

OptimNets(name) == (CHOOSE o \in optims : o.name = name).nets

\* <optimizer>.step(loss)
Grad(st, name, g) ==
    [st EXCEPT !.p = OptimStep(st.p, OptimNets(name), g),
               !.tr = Append(st.tr, Ev("grad", 0, OptimNets(name), name, st.v, NoSnap, NoSnap))]

\* Evaluation of the networks ns for batch index i; the value comes from network f.
Read(st, i, ns, f) ==
    [st EXCEPT !.tr = Append(st.tr, Ev("read", i, ns, f, st.v, NoSnap, NoSnap))]

RECURSIVE ReadAll(_, _, _, _)
ReadAll(st, i, ns, f) ==
    IF i > BatchSize THEN st ELSE ReadAll(Read(st, i, ns, f), i + 1, ns, f)

\* ------------------------------------------------------------ _target_q

\* The network whose output is the target Q-value.
TargetQFrom(a, f) ==
    CASE a \in QLearningAlgs -> IF UseTargetNetwork(f) THEN "model_old" ELSE "model"
      [] a = "DiscreteBCQ" -> "model_old"
      [] OTHER -> "critic_old"

\* All networks evaluated by _target_q.
TargetQNets(a, f) ==
    CASE a \in QLearningAlgs -> PolicyNets(a) \cup {TargetQFrom(a, f)}
      [] a = "DiscreteBCQ" -> PolicyNets(a) \cup {"model_old"}
      [] a = "DDPG" -> {"actor_old", "critic_old"}
      [] a = "TD3" -> {"actor_old", "critic_old", "critic2_old"}
      [] a = "REDQ" -> {"actor", "critic_old"}
      [] OTHER -> {"actor", "critic_old", "critic2_old"}

\* Variant: the lagged networks are updated after the first index.
TargetQSyncMidBatch(st) ==
    ReadAll(Sync(Read(st, 1, TargetQNets(alg, freq), TargetQFrom(alg, freq))),
            2, TargetQNets(alg, freq), TargetQFrom(alg, freq))

\* _target_q(buffer, indices): one evaluation over all indices of the batch.
TargetQ(st) ==
    ReadAll(st, 1, TargetQNets(alg, freq), TargetQFrom(alg, freq))

\* preprocess_batch: the n-step return is computed from _target_q; DiscreteCRR
\* and Reinforce add discounted returns instead, which evaluate no network; A2C
\* evaluates its critic for the value estimates.
PreprocessBatch ==
    /\ pc = "idle"
    /\ Len(callLog) < MaxCalls
    /\ IF alg = "DiscreteBCQ" /\ old["model_old"] = "unset"
       THEN /\ pc' = "error"
            /\ error' = "AttributeError"
            /\ UNCHANGED <<batch, trace>>
       ELSE /\ pc' = "update"
            /\ error' = ""
            /\ IF alg \in {"DiscreteCRR", "Reinforce"}
               THEN /\ trace' = <<>>
                    /\ batch' = [k \in 1..BatchSize |-> 0]
               ELSE IF alg = "A2C"
               THEN /\ trace' = ReadAll([Here EXCEPT !.tr = <<>>], 1, {"critic"}, "critic").tr
                    /\ batch' = [k \in 1..BatchSize |-> param["critic"]]
               ELSE /\ trace' = TargetQ([Here EXCEPT !.tr = <<>>]).tr
                    /\ batch' = [k \in 1..BatchSize |-> param[TargetQFrom(alg, freq)]]
    /\ UNCHANGED <<aux, hyper, engine, logging, alg, tau, freq, actorFreq, critic2Given, param, pairs, old, optims,
                   iter, cnt, critic_gradient_step, callLog, ver, nupd>>

\* ----------------------------------------------------- _update_with_batch

\* The optimizers (and alpha) that were stepped in a sequence of events.
StepsOf(tr) == {tr[i].from : i \in {j \in DOMAIN tr : tr[j].ev \in {"grad", "alpha"}}}

\* The handler returns: its effects are committed and the batch is dropped.
Return(st, preIter) ==
    /\ param' = st.p
    /\ trace' = st.tr
    /\ ver' = st.v
    /\ nupd' = st.nu
    /\ callLog' = Append(callLog, [iter |-> preIter, nsync |-> st.v - ver,
                                    steps |-> StepsOf(st.tr)])
    /\ batch' = <<>>
    /\ pc' = "idle"
    /\ error' = ""

\* The handler raises before any of its effects.
Raise(e) ==
    /\ pc' = "error"
    /\ error' = e
    /\ UNCHANGED <<param, trace, ver, nupd, callLog, batch, iter, cnt, critic_gradient_step>>

\* The guard of a periodic full update: "skip", "update", or the exception
\* raised by the modulo when it is evaluated with a zero frequency.
PeriodicGuard(enabled, it, f) ==
    IF ~enabled THEN "skip"
    ELSE IF f = 0 THEN "ZeroDivisionError"
    ELSE IF it % f = 0 THEN "update" ELSE "skip"

\* Variant: the counter is tested after its increment.
PeriodicallyUpdateGuardPostIncrement(it, f) == PeriodicGuard(UseTargetNetwork(f), it + 1, f)

\* QLearningOffPolicyAlgorithm._periodically_update_lagged_network_weights
PeriodicallyUpdateGuard(it, f) == PeriodicGuard(UseTargetNetwork(f), it, f)

PeriodicallyUpdateLaggedNetworkWeights(st, it, f) ==
    IF PeriodicallyUpdateGuard(it, f) = "update" THEN Sync(st) ELSE st

\* Common shape of DQN / QRDQN / IQN / DiscreteCQL ._update_with_batch
QLearningUpdate(a) ==
    /\ pc = "update"
    /\ alg = a
    /\ batch # <<>>
    /\ IF PeriodicallyUpdateGuard(iter, freq) = "ZeroDivisionError"
       THEN Raise("ZeroDivisionError")
       ELSE \E g \in Grads :
            LET s1 == PeriodicallyUpdateLaggedNetworkWeights(Here, iter, freq)
                s2 == Grad(s1, "optim", g)
            IN  /\ Return(s2, iter)
                /\ iter' = iter + 1
                /\ UNCHANGED <<cnt, critic_gradient_step>>
    /\ UNCHANGED <<aux, hyper, engine, logging, alg, tau, freq, actorFreq, critic2Given, pairs, old, optims>>

\* Variant: the periodic update follows the optimizer step.
DQNUpdateWithBatchSyncLast ==
    /\ pc = "update"
    /\ alg = "DQN"
    /\ batch # <<>>
    /\ IF PeriodicallyUpdateGuard(iter, freq) = "ZeroDivisionError"
       THEN Raise("ZeroDivisionError")
       ELSE \E g \in Grads :
            LET s1 == Grad(Here, "optim", g)
                s2 == PeriodicallyUpdateLaggedNetworkWeights(s1, iter, freq)
            IN  /\ Return(s2, iter)
                /\ iter' = iter + 1
                /\ UNCHANGED <<cnt, critic_gradient_step>>
    /\ UNCHANGED <<aux, hyper, engine, logging, alg, tau, freq, actorFreq, critic2Given, pairs, old, optims>>

DQNUpdateWithBatch == QLearningUpdate("DQN")

QRDQNUpdateWithBatch == QLearningUpdate("QRDQN")

IQNUpdateWithBatch == QLearningUpdate("IQN")

DiscreteCQLUpdateWithBatch == QLearningUpdate("DiscreteCQL")

FQFUpdateWithBatch ==
    /\ pc = "update"
    /\ alg = "FQF"
    /\ batch # <<>>
    /\ IF PeriodicallyUpdateGuard(iter, freq) = "ZeroDivisionError"
       THEN Raise("ZeroDivisionError")
       ELSE \E g \in Grads :
            LET s1 == PeriodicallyUpdateLaggedNetworkWeights(Here, iter, freq)
                s2 == Grad(s1, "fraction_optim", g)
                s3 == Grad(s2, "optim", g)
            IN  /\ Return(s3, iter)
                /\ iter' = iter + 1
                /\ UNCHANGED <<cnt, critic_gradient_step>>
    /\ UNCHANGED <<aux, hyper, engine, logging, alg, tau, freq, actorFreq, critic2Given, pairs, old, optims>>

\* DiscreteBCQ: the modulo is evaluated unconditionally.
DiscreteBCQGuard(it, f) == PeriodicGuard(TRUE, it, f)

DiscreteBCQUpdateWithBatch ==
    /\ pc = "update"
    /\ alg = "DiscreteBCQ"
    /\ batch # <<>>
    /\ IF DiscreteBCQGuard(iter, freq) = "ZeroDivisionError"
       THEN Raise("ZeroDivisionError")
       ELSE \E g \in Grads :
            LET s1 == IF DiscreteBCQGuard(iter, freq) = "update" THEN Sync(Here) ELSE Here
                s2 == Grad(s1, "optim", g)
            IN  /\ Return(s2, iter)
                /\ iter' = iter + 1
                /\ UNCHANGED <<cnt, critic_gradient_step>>
    /\ UNCHANGED <<aux, hyper, engine, logging, alg, tau, freq, actorFreq, critic2Given, pairs, old, optims>>

\* DiscreteCRR: self._target and self._iter % self._freq == 0; the targets are
\* evaluated from actor_old and critic_old inside the handler.
DiscreteCRRGuard(it, f) == PeriodicGuard(f > 0, it, f)

DiscreteCRRUpdateWithBatch ==
    /\ pc = "update"
    /\ alg = "DiscreteCRR"
    /\ IF DiscreteCRRGuard(iter, freq) = "ZeroDivisionError"
       THEN Raise("ZeroDivisionError")
       ELSE \E g \in Grads :
            LET s1 == IF DiscreteCRRGuard(iter, freq) = "update" THEN Sync(Here) ELSE Here
                s2 == ReadAll(s1, 1, {old["actor_old"], old["critic_old"]}, old["critic_old"])
                s3 == Grad(s2, "optim", g)
            IN  /\ Return(s3, iter)
                /\ iter' = iter + 1
                /\ UNCHANGED <<cnt, critic_gradient_step>>
    /\ UNCHANGED <<aux, hyper, engine, logging, alg, tau, freq, actorFreq, critic2Given, pairs, old, optims>>

DDPGUpdateWithBatch ==
    /\ pc = "update"
    /\ alg = "DDPG"
    /\ batch # <<>>
    /\ \E g \in Grads :
        LET s1 == Grad(Here, "critic_optim", g)
            s2 == Grad(s1, "policy_optim", g)
            s3 == Sync(s2)
        IN  Return(s3, 0)
    /\ UNCHANGED <<aux, hyper, engine, logging, alg, tau, freq, actorFreq, critic2Given, pairs, old, optims,
                   iter, cnt, critic_gradient_step>>

\* TD3: the actor step and the lagged update share the delayed branch.
\* Variant: the counter is tested after its increment.
TD3ActorDuePostIncrement(c, uaf) == (c + 1) % uaf = 0

TD3ActorDue(c, uaf) == c % uaf = 0

\* Variant: the kept actor loss is reset on a call without actor update.
LastActorLossReset(due, loss, lst) == IF due THEN loss ELSE 0

\* self._last = actor_loss.item() inside the delayed branch; the statistics
\* report self._last.
LastActorLoss(due, loss, lst) == IF due THEN loss ELSE lst

\* The value of the actor loss is abstracted to the gradient of the call.
TD3UpdateWithBatch ==
    /\ pc = "update"
    /\ alg = "TD3"
    /\ batch # <<>>
    /\ \E g \in Grads :
        LET s1 == Grad(Here, "critic_optim", g)
            s2 == Grad(s1, "critic2_optim", g)
            s3 == IF TD3ActorDue(cnt, actorFreq)
                  THEN Sync(Grad(s2, "policy_optim", g))
                  ELSE s2
        IN  /\ Return(s3, cnt)
            /\ last_actor_loss' = LastActorLoss(TD3ActorDue(cnt, actorFreq), g, last_actor_loss)
            /\ reported' = LastActorLoss(TD3ActorDue(cnt, actorFreq), g, last_actor_loss)
            /\ actor_loss' = IF TD3ActorDue(cnt, actorFreq) THEN g ELSE actor_loss
    /\ cnt' = cnt + 1
    /\ UNCHANGED <<aux, hyper, engine, alg, tau, freq, actorFreq, critic2Given, pairs, old, optims,
                   iter, critic_gradient_step>>

\* REDQ: the counter is incremented before the test; the lagged update is
\* outside the delayed branch.
\* Variant: the counter is tested before its increment.
REDQActorDuePreIncrement(c, delay) == (c - 1) % delay = 0

REDQActorDue(c, delay) == c % delay = 0

\* self.alpha.update(entropy)
AlphaUpdate(st) ==
    [st EXCEPT !.tr = Append(st.tr, Ev("alpha", 0, {}, "alpha", st.v, NoSnap, NoSnap))]

REDQUpdateWithBatch ==
    /\ pc = "update"
    /\ alg = "REDQ"
    /\ batch # <<>>
    /\ \E g \in Grads :
        LET due == REDQActorDue(critic_gradient_step + 1, actorFreq)
            s1 == Grad(Here, "critic_optim", g)
            s2 == IF due THEN AlphaUpdate(Grad(s1, "policy_optim", g)) ELSE s1
            s3 == Sync(s2)
        IN  /\ Return(s3, critic_gradient_step)
            /\ last_actor_loss' = LastActorLoss(due, g, last_actor_loss)
            /\ reported' = LastActorLoss(due, g, last_actor_loss)
            /\ actor_loss' = IF due THEN g ELSE actor_loss
    /\ critic_gradient_step' = critic_gradient_step + 1
    /\ UNCHANGED <<aux, hyper, engine, alg, tau, freq, actorFreq, critic2Given, pairs, old, optims,
                   iter, cnt>>

DiscreteSACUpdateWithBatch ==
    /\ pc = "update"
    /\ alg = "DiscreteSAC"
    /\ batch # <<>>
    /\ \E g \in Grads :
        LET s1 == Grad(Here, "critic_optim", g)
            s2 == Grad(s1, "critic2_optim", g)
            s3 == Grad(s2, "policy_optim", g)
            s4 == Sync(s3)
        IN  Return(s4, 0)
    /\ UNCHANGED <<aux, hyper, engine, logging, alg, tau, freq, actorFreq, critic2Given, pairs, old, optims,
                   iter, cnt, critic_gradient_step>>

\* repeat x minibatches optimizer steps on one optimizer.
RECURSIVE GradTimes(_, _, _, _)
GradTimes(st, name, g, k) ==
    IF k = 0 THEN st ELSE GradTimes(Grad(st, name, g), name, g, k - 1)

OnPolicyUpdate(a) ==
    /\ pc = "update"
    /\ alg = a
    /\ batch # <<>>
    /\ \E g \in Grads, k \in 1..MaxRepeat :
        Return(GradTimes(Here, "optim", g, k), 0)
    /\ UNCHANGED <<aux, hyper, engine, logging, alg, tau, freq, actorFreq, critic2Given, pairs, old, optims,
                   iter, cnt, critic_gradient_step>>

ReinforceUpdateWithBatch == OnPolicyUpdate("Reinforce")

A2CUpdateWithBatch == OnPolicyUpdate("A2C")

Next ==
    \/ Construct
    \/ PreprocessBatch
    \/ DQNUpdateWithBatch
    \/ QRDQNUpdateWithBatch
    \/ IQNUpdateWithBatch
    \/ FQFUpdateWithBatch
    \/ DiscreteCQLUpdateWithBatch
    \/ DiscreteBCQUpdateWithBatch
    \/ DiscreteCRRUpdateWithBatch
    \/ DDPGUpdateWithBatch
    \/ TD3UpdateWithBatch
    \/ REDQUpdateWithBatch
    \/ DiscreteSACUpdateWithBatch
    \/ ReinforceUpdateWithBatch
    \/ A2CUpdateWithBatch

Spec == Init /\ [][Next]_vars

\* ------------------------------------------- return / advantage estimation
\* Discount factors, lambdas, rewards and value estimates are integers; the
\* floating-point mean and standard deviation of RunningMeanStd are rounded to
\* integers.

Kinds == {"none", "terminated", "truncated"}

\* One transition of a batch: its reward, its episode-boundary flags, and the
\* value estimates of its observation (vs) and of its next observation (vnext).
Transition(r, k, v, vn) == [rew |-> r, kind |-> k, vs |-> v, vnext |-> vn]

\* A batch in chronological order. Observation i has the value estimate 2i;
\* the next observation of a transition inside an episode is the observation
\* of the following transition, the one of an episode's last transition (and
\* of the last transition of the batch) is an observation of its own.
MakeBatch(ks) ==
    [i \in DOMAIN ks |->
        Transition(MaxRew + i - 1, ks[i], 2 * i,
                   IF ks[i] = "none" /\ i + 1 \in DOMAIN ks THEN 2 * (i + 1) ELSE 2 * i + 1)]

\* The batches of 1..BatchLen transitions that span at most two episodes: at
\* most one transition before the last is an episode boundary, and the last
\* one is terminated, truncated or at the unfinished frontier.
Batches ==
    UNION {{MakeBatch(ks) :
               ks \in {f \in [1..len -> Kinds] :
                          Cardinality({i \in 1..(len - 1) : f[i] # "none"}) <= 1}} :
              len \in 1..BatchLen}

\* batch.terminated | batch.truncated
Done(b, i) == b[i].kind # "none"

\* buffer.unfinished_index(): the most recent transition, if its episode has
\* not ended.
UnfinishedIndex(b) == IF Done(b, Len(b)) THEN {} ELSE {Len(b)}

\* ---- RunningMeanStd
RECURSIVE SumSeq(_)
SumSeq(xs) == IF xs = <<>> THEN 0 ELSE Head(xs) + SumSeq(Tail(xs))

RECURSIVE SumSquares(_)
SumSquares(xs) == IF xs = <<>> THEN 0 ELSE Head(xs) * Head(xs) + SumSquares(Tail(xs))

\* update(batch of scalars): merges the batch into the running aggregate.
RmsUpdate(rms, xs) ==
    [count |-> rms.count + Len(xs),
     sum |-> rms.sum + SumSeq(xs),
     sumsq |-> rms.sumsq + SumSquares(xs)]

\* mean; 0.0 before the first update.
RmsMean(rms) == IF rms.count = 0 THEN 0 ELSE rms.sum \div rms.count

\* var; 1.0 before the first update.
RmsVar(rms) ==
    IF rms.count = 0 THEN 1
    ELSE (rms.count * rms.sumsq - rms.sum * rms.sum) \div (rms.count * rms.count)

ISqrt(x) == CHOOSE k \in 0..x : k * k <= x /\ (k + 1) * (k + 1) > x

\* np.sqrt(ret_rms.var + eps): the epsilon keeps the divisor positive.
SqrtVarEps(rms) == IF ISqrt(RmsVar(rms)) = 0 THEN 1 ELSE ISqrt(RmsVar(rms))

\* ---- compute_episodic_return (GAE)
\* Variant: only a terminated step and the frontier end the recursion.
EndFlagTerminated(b, i) == b[i].kind = "terminated" \/ i = Len(b)

\* The recursion ends at an episode boundary (terminated or truncated) and at
\* the unfinished frontier.
EndFlag(b, i) == Done(b, i) \/ i \in UnfinishedIndex(b)

\* The factor of V(s_{i+1}) in the residual: a terminated step has no
\* continuation value; a truncated step still bootstraps from the value at
\* the cutoff, because the trajectory did not actually end.
ValueMask(b, i) == IF b[i].kind = "terminated" THEN 0 ELSE 1

\* delta_i = r_i + gamma * V(s_{i+1}) * (1 - done_i) - V(s_i)
Residual(b, v_s_, v_s, g, i) ==
    b[i].rew + g * v_s_[i] * ValueMask(b, i) - v_s[i]

\* A_i = delta_i + gamma * lambda * (1 - done_i) * A_{next(i)}
RECURSIVE GaeAdvantage(_, _, _, _, _, _)
GaeAdvantage(b, v_s_, v_s, g, l, i) ==
    Residual(b, v_s_, v_s, g, i)
        + (IF EndFlag(b, i) THEN 0 ELSE g * l * GaeAdvantage(b, v_s_, v_s, g, l, i + 1))

\* v_s = None: the value of a state is the next-state value of the previous
\* transition (np.roll(v_s_, 1)).
DefaultVs(v_s_) ==
    [i \in DOMAIN v_s_ |-> IF i = 1 THEN v_s_[Len(v_s_)] ELSE v_s_[i - 1]]

\* Returns (V(s_i) + A_i) and advantages.
ComputeEpisodicReturn(b, v_s_, v_s, g, l) ==
    LET adv == [i \in DOMAIN b |-> GaeAdvantage(b, v_s_, v_s, g, l, i)] IN
    [returns |-> [i \in DOMAIN b |-> v_s[i] + adv[i]], adv |-> adv]

\* ---- compute_nstep_return
\* The number m of steps of the forward walk from i: it stops after n steps,
\* at an episode boundary and at the frontier of the recorded data.
RECURSIVE StepsWalked(_, _, _)
StepsWalked(b, i, n) ==
    IF n <= 1 \/ Done(b, i) \/ i = Len(b) THEN 1 ELSE 1 + StepsWalked(b, i + 1, n - 1)

RECURSIVE DiscountedRewards(_, _, _, _)
DiscountedRewards(b, g, i, m) ==
    IF m = 0 THEN 0 ELSE b[i].rew + g * DiscountedRewards(b, g, i + 1, m - 1)

RECURSIVE Pow(_, _)
Pow(g, m) == IF m = 0 THEN 1 ELSE g * Pow(g, m - 1)

\* sum_k gamma^k r_{i+k} over the walk, plus gamma^m * target_q at the last
\* step of the walk unless that step is terminated.
ComputeNStepReturn(b, tq, g, n) ==
    [i \in DOMAIN b |->
        LET m == StepsWalked(b, i, n)
            last == i + m - 1
        IN  DiscountedRewards(b, g, i, m)
                + (IF b[last].kind = "terminated" THEN 0 ELSE Pow(g, m) * tq[last])]

\* ---- Batch.split(size, shuffle=False, merge_last=True): the sizes of the
\* minibatches; a last minibatch smaller than size is merged into the one
\* before it.
RECURSIVE SplitFrom(_, _, _, _)
SplitFrom(idx, length, size, merge) ==
    IF idx >= length THEN <<>>
    ELSE IF merge /\ idx + size + size >= length THEN <<length - idx>>
    ELSE <<IF size <= length - idx THEN size ELSE length - idx>>
             \o SplitFrom(idx + size, length, size, merge)

Split(length, size) == SplitFrom(0, length, size, length % size > 0)

\* ---- preprocessing
\* A use of the running statistics: what it is used for, the state it is
\* read in, and (update only) the samples it is updated with.
Use(e, rms, xs) == [ev |-> e, rms |-> rms, arg |-> xs]

\* A value divided by a divisor, after a mean was subtracted.
Scaled(x, mean, den) == [num |-> x - mean, den |-> den]

Unscaled(xs) == [i \in DOMAIN xs |-> Scaled(xs[i], 0, 1)]

\* What a preprocessing adds to the batch and does to ret_rms.
Preprocessed(pre, post, v_s_, v_s, unnorm, returns, adv, chunks, tr) ==
    [pre |-> pre, rms |-> post, v_s_ |-> v_s_, v_s |-> v_s, unnorm |-> unnorm,
     returns |-> returns, adv |-> adv, chunks |-> chunks, tr |-> tr]

\* Variant: the terminal value estimate is zero.
TerminalValueEstimateZero(rms, b) == [i \in DOMAIN b |-> 0]

\* v_s_ = np.full(indices.shape, self.ret_rms.mean)
TerminalValueEstimate(rms, b) == [i \in DOMAIN b |-> RmsMean(rms)]

\* Variant: ret_rms is updated before the returns are normalized.
AddDiscountedReturnsUpdateFirst(rms, b, g, rn) ==
    LET v_s_ == TerminalValueEstimate(rms, b)
        v_s == DefaultVs(v_s_)
        unnorm == ComputeEpisodicReturn(b, v_s_, v_s, g, 1).returns
        rms2 == RmsUpdate(rms, unnorm)
    IN  IF rn
        THEN Preprocessed(rms, rms2, v_s_, v_s, unnorm,
                [i \in DOMAIN b |-> Scaled(unnorm[i], RmsMean(rms2), SqrtVarEps(rms2))],
                <<>>, <<>>,
                <<Use("update", rms, unnorm), Use("normalize", rms2, <<>>)>>)
        ELSE Preprocessed(rms, rms, v_s_, v_s, unnorm, Unscaled(unnorm), <<>>, <<>>, <<>>)

\* Variant: ret_rms is updated whether or not the returns are normalized.
AddDiscountedReturnsAlwaysUpdate(rms, b, g, rn) ==
    LET v_s_ == TerminalValueEstimate(rms, b)
        v_s == DefaultVs(v_s_)
        unnorm == ComputeEpisodicReturn(b, v_s_, v_s, g, 1).returns
    IN  IF rn
        THEN Preprocessed(rms, RmsUpdate(rms, unnorm), v_s_, v_s, unnorm,
                [i \in DOMAIN b |-> Scaled(unnorm[i], RmsMean(rms), SqrtVarEps(rms))],
                <<>>, <<>>,
                <<Use("normalize", rms, <<>>), Use("update", rms, unnorm)>>)
        ELSE Preprocessed(rms, RmsUpdate(rms, unnorm), v_s_, v_s, unnorm, Unscaled(unnorm),
                <<>>, <<>>, <<>>)

\* Variant: the returns are computed with gae_lambda = 0.
AddDiscountedReturnsLambdaZero(rms, b, g, rn) ==
    LET v_s_ == TerminalValueEstimate(rms, b)
        v_s == DefaultVs(v_s_)
        unnorm == ComputeEpisodicReturn(b, v_s_, v_s, g, 0).returns
    IN  IF rn
        THEN Preprocessed(rms, RmsUpdate(rms, unnorm), v_s_, v_s, unnorm,
                [i \in DOMAIN b |-> Scaled(unnorm[i], RmsMean(rms), SqrtVarEps(rms))],
                <<>>, <<>>,
                <<Use("normalize", rms, <<>>), Use("update", rms, unnorm)>>)
        ELSE Preprocessed(rms, rms, v_s_, v_s, unnorm, Unscaled(unnorm), <<>>, <<>>, <<>>)

\* DiscountedReturnComputation.add_discounted_returns
AddDiscountedReturns(rms, b, g, rn) ==
    LET v_s_ == TerminalValueEstimate(rms, b)
        v_s == DefaultVs(v_s_)
        unnorm == ComputeEpisodicReturn(b, v_s_, v_s, g, 1).returns
    IN  IF rn
        THEN Preprocessed(rms, RmsUpdate(rms, unnorm), v_s_, v_s, unnorm,
                [i \in DOMAIN b |-> Scaled(unnorm[i], RmsMean(rms), SqrtVarEps(rms))],
                <<>>, <<>>,
                <<Use("normalize", rms, <<>>), Use("update", rms, unnorm)>>)
        ELSE Preprocessed(rms, rms, v_s_, v_s, unnorm, Unscaled(unnorm), <<>>, <<>>, <<>>)

\* Variant: ret_rms is updated with the unnormalized returns before they are
\* renormalized.
AddReturnsAndAdvantagesUpdateBetween(rms, b, g, l, rn, mb) ==
    LET chunks == Split(Len(b), mb)
        v_s == [i \in DOMAIN b |-> IF rn THEN b[i].vs * SqrtVarEps(rms) ELSE b[i].vs]
        v_s_ == [i \in DOMAIN b |-> IF rn THEN b[i].vnext * SqrtVarEps(rms) ELSE b[i].vnext]
        cer == ComputeEpisodicReturn(b, v_s_, v_s, g, l)
        rms2 == RmsUpdate(rms, cer.returns)
    IN  IF rn
        THEN Preprocessed(rms, rms2, v_s_, v_s, cer.returns,
                [i \in DOMAIN b |-> Scaled(cer.returns[i], 0, SqrtVarEps(rms2))],
                cer.adv, chunks,
                <<Use("unnormalize", rms, <<>>), Use("update", rms, cer.returns),
                  Use("normalize", rms2, <<>>)>>)
        ELSE Preprocessed(rms, rms, v_s_, v_s, cer.returns, Unscaled(cer.returns),
                cer.adv, chunks, <<>>)

\* ActorCriticOnPolicyAlgorithm._add_returns_and_advantages
AddReturnsAndAdvantages(rms, b, g, l, rn, mb) ==
    LET chunks == Split(Len(b), mb)
        v_s == [i \in DOMAIN b |-> IF rn THEN b[i].vs * SqrtVarEps(rms) ELSE b[i].vs]
        v_s_ == [i \in DOMAIN b |-> IF rn THEN b[i].vnext * SqrtVarEps(rms) ELSE b[i].vnext]
        cer == ComputeEpisodicReturn(b, v_s_, v_s, g, l)
    IN  IF rn
        THEN Preprocessed(rms, RmsUpdate(rms, cer.returns), v_s_, v_s, cer.returns,
                [i \in DOMAIN b |-> Scaled(cer.returns[i], 0, SqrtVarEps(rms))],
                cer.adv, chunks,
                <<Use("unnormalize", rms, <<>>), Use("normalize", rms, <<>>),
                  Use("update", rms, cer.returns)>>)
        ELSE Preprocessed(rms, rms, v_s_, v_s, cer.returns, Unscaled(cer.returns),
                cer.adv, chunks, <<>>)

\* _target_q(buffer, indices): the target value of each next observation.
TargetQValues(b) == [i \in DOMAIN b |-> b[i].vnext]

\* Variant: the one-step return is computed whatever estimation_step is.
NStepPreprocessOneStep(rms, b, g, n) ==
    LET ret == ComputeNStepReturn(b, TargetQValues(b), g, 1) IN
    Preprocessed(rms, rms, TargetQValues(b), <<>>, ret, Unscaled(ret), <<>>, <<>>, <<>>)

\* preprocess_batch of the Q-learning family, DiscreteBCQ and the off-policy
\* actor-critic family: compute_nstep_return with target_q_fn = _target_q,
\* gamma and the estimation step.
NStepPreprocess(rms, b, g, n) ==
    LET ret == ComputeNStepReturn(b, TargetQValues(b), g, n) IN
    Preprocessed(rms, rms, TargetQValues(b), <<>>, ret, Unscaled(ret), <<>>, <<>>, <<>>)

\* The algorithm classes that define a preprocess_batch of their own (A2C,
\* Reinforce, DiscreteCRR, DiscreteBCQ) or stand for the class that defines
\* theirs (DQN for QLearningOffPolicyAlgorithm, DDPG for
\* ActorCriticOffPolicyAlgorithm).
ReturnAlgs == {"A2C", "Reinforce", "DiscreteCRR", "DQN", "DiscreteBCQ", "DDPG"}

NStepAlgs == {"DQN", "DiscreteBCQ", "DDPG"}

\* The variables of the lagged-network model, which preprocessing leaves alone.
core == <<alg, tau, freq, actorFreq, critic2Given, pc, error, param, pairs, old, optims,
          iter, cnt, critic_gradient_step, batch, trace, callLog, ver, nupd>>

\* The state after a successful construction: the hyperparameters are the
\* ones the constructor accepts, with gamma in its documented range [0, 1].
\* The networks are left out; their outputs are the value estimates a batch
\* carries. The n-step return is taken without reward normalization and with
\* at least one step. The split into chunks precedes the normalization branch
\* and does not depend on it, so max_batchsize is varied without normalization.
InitReturns ==
    /\ alg \in ReturnAlgs
    /\ tau = 0
    /\ freq = IF alg = "DiscreteCRR" THEN 1 ELSE 0
    /\ actorFreq = 1
    /\ critic2Given = FALSE
    /\ pc = "idle"
    /\ error = ""
    /\ param = [n \in Nets |-> NoParam]
    /\ pairs = {}
    /\ old = [s \in ShadowNets |-> "unset"]
    /\ optims = {}
    /\ iter = 0
    /\ cnt = 0
    /\ critic_gradient_step = 0
    /\ batch = <<>>
    /\ trace = <<>>
    /\ callLog = <<>>
    /\ ver = 0
    /\ nupd = [s \in ShadowNets |-> 0]
    /\ gamma \in {g \in GammaVals : GammaAccepted(g)}
    /\ estimation_step \in IF alg \in NStepAlgs THEN 1..MaxNStep ELSE {1}
    /\ gae_lambda \in IF alg = "A2C" THEN GammaVals ELSE {1}
    /\ ensemble_size = 1
    /\ subset_size = 1
    /\ ConstructorError(alg, tau, freq,
            Hyper(gamma, estimation_step, gae_lambda, ensemble_size, subset_size)) = ""
    /\ rew_norm \in IF alg \in NStepAlgs THEN {FALSE} ELSE BOOLEAN
    /\ max_batchsize \in IF alg # "A2C" THEN {1}
                         ELSE IF rew_norm THEN {MaxBatchsize} ELSE 1..MaxBatchsize
    /\ ret_rms = RmsInit
    /\ buffer = <<>>
    /\ result = <<>>
    /\ fitted = <<>>
    /\ processed = 0
    /\ last_actor_loss = 0
    /\ reported = NoLoss
    /\ actor_loss = NoLoss
    /\ AuxIdle

\* preprocess_batch returns: the batch carries the results, ret_rms is as the
\* handler left it.
Commit(b, r) ==
    /\ buffer' = b
    /\ result' = r
    /\ ret_rms' = r.rms
    /\ fitted' = IF \E i \in DOMAIN r.tr : r.tr[i].ev = "update"
                  THEN Append(fitted, r.tr[CHOOSE i \in DOMAIN r.tr : r.tr[i].ev = "update"].arg)
                  ELSE fitted
    /\ processed' = processed + 1
    /\ UNCHANGED <<core, hyper, logging, aux, rew_norm, max_batchsize>>

A2CPreprocessBatch ==
    /\ alg = "A2C"
    /\ pc = "idle"
    /\ processed < MaxBatches
    /\ \E b \in Batches :
        Commit(b, AddReturnsAndAdvantages(ret_rms, b, gamma, gae_lambda, rew_norm,
                                          max_batchsize))

ReinforcePreprocessBatch ==
    /\ alg = "Reinforce"
    /\ pc = "idle"
    /\ processed < MaxBatches
    /\ \E b \in Batches : Commit(b, AddDiscountedReturns(ret_rms, b, gamma, rew_norm))

DiscreteCRRPreprocessBatch ==
    /\ alg = "DiscreteCRR"
    /\ pc = "idle"
    /\ processed < MaxBatches
    /\ \E b \in Batches : Commit(b, AddDiscountedReturns(ret_rms, b, gamma, rew_norm))

QLearningPreprocessBatch ==
    /\ alg = "DQN"
    /\ pc = "idle"
    /\ processed < MaxBatches
    /\ \E b \in Batches : Commit(b, NStepPreprocess(ret_rms, b, gamma, estimation_step))

DiscreteBCQPreprocessBatch ==
    /\ alg = "DiscreteBCQ"
    /\ pc = "idle"
    /\ processed < MaxBatches
    /\ \E b \in Batches : Commit(b, NStepPreprocess(ret_rms, b, gamma, estimation_step))

ActorCriticOffPolicyPreprocessBatch ==
    /\ alg = "DDPG"
    /\ pc = "idle"
    /\ processed < MaxBatches
    /\ \E b \in Batches : Commit(b, NStepPreprocess(ret_rms, b, gamma, estimation_step))

NextReturns ==
    \/ A2CPreprocessBatch
    \/ ReinforcePreprocessBatch
    \/ DiscreteCRRPreprocessBatch
    \/ QLearningPreprocessBatch
    \/ DiscreteBCQPreprocessBatch
    \/ ActorCriticOffPolicyPreprocessBatch

SpecReturns == InitReturns /\ [][NextReturns]_vars

\* ------------------------------------------------- action selection
\* DQNPolicy.forward / compute_q_value / add_exploration_noise and
\* DiscreteBCQPolicy.forward as functions of the network outputs. Tensors are
\* sequences of rows, one row per observation of the batch; a row maps the
\* actions 1..NumActions (0..n-1 in the source) to a value.
\*
\* The tensors are float32. Values here are integers in a binary floating-point
\* format with Precision significand bits and exponents up to MaxExponent:
\* integers up to 2^Precision are exact, above that the spacing doubles with
\* every binade, results are rounded to nearest, ties to even, and a result
\* beyond FloatMax overflows to infinity (float32: 24 bits, 3.4028235e38).
NumActions == 2     \* q.shape[1]
Precision == 2      \* significand bits of the floating-point format
MaxExponent == 2    \* largest exponent of the floating-point format

Actions == 1..NumActions

\* The batch holds one observation: argmax, the filter and the replacement act
\* on each row by itself, and the minimum and maximum of compute_q_value are
\* then those of the row.
Rows == {1}

Abs(x) == IF x < 0 THEN 0 - x ELSE x

FloatMax == (Pow(2, Precision) - 1) * Pow(2, MaxExponent)
Infinity == Pow(2, Precision + MaxExponent)

\* The spacing of the representable numbers around a magnitude a.
RECURSIVE UlpFrom(_, _)
UlpFrom(a, u) == IF a < Pow(2, Precision) * u THEN u ELSE UlpFrom(a, 2 * u)

Ulp(a) == UlpFrom(a, 1)

\* a rounded to a multiple of u: to nearest, ties to the even multiple.
RoundNearestEven(a, u) ==
    LET k == a \div u
        r == a % u
    IN  IF 2 * r < u THEN k * u
        ELSE IF 2 * r > u THEN (k + 1) * u
        ELSE IF k % 2 = 0 THEN k * u ELSE (k + 1) * u

\* The floating-point result of an operation whose exact result is x.
Float(x) ==
    LET m == RoundNearestEven(Abs(x), Ulp(Abs(x)))
        c == IF m > FloatMax THEN Infinity ELSE m
    IN  IF x < 0 THEN 0 - c ELSE c

SetMax(S) == CHOOSE x \in S : \A y \in S : y <= x
SetMin(S) == CHOOSE x \in S : \A y \in S : x <= y

TensorValues(t) == {t[i][a] : i \in DOMAIN t, a \in Actions}
TensorMax(t) == SetMax(TensorValues(t))
TensorMin(t) == SetMin(TensorValues(t))
RowMax(row) == SetMax({row[a] : a \in Actions})

\* argmax along the action dimension: the first index holding the maximum.
ArgMax(row) == SetMin({a \in Actions : row[a] = RowMax(row)})

\* The observation has no mask attribute.
NoMask == <<>>

\* 1 - mask, as a number of the tensor's type.
OneMinus(m) == IF m THEN 0 ELSE 1

\* DQNPolicy.compute_q_value: min_value is taken over the whole tensor.
ComputeQValue(logits, mask) ==
    IF mask = NoMask THEN logits
    ELSE LET diff == Float(TensorMin(logits) - TensorMax(logits))
             min_value == Float(diff - 1)
         IN  [i \in DOMAIN logits |->
                [a \in Actions |->
                    Float(logits[i][a] + Float(OneMinus(mask[i][a]) * min_value))]]

\* DQNPolicy.forward: q and act of the returned batch.
DQNForward(logits, mask) ==
    LET q == ComputeQValue(logits, mask)
    IN  [q |-> q, act |-> [i \in DOMAIN q |-> ArgMax(q[i])]]

\* The value forward leaves in max_action_num.
MaxActionNum(cur) == IF cur = NoActionNum THEN NumActions ELSE cur

\* np.isclose(eps, 0.0) for eps = 0, a proper fraction, or 1.
EpsVals == {"zero", "fraction", "one"}
IsCloseToZero(eps) == eps = "zero"

\* np.random.rand(batch_size) < eps: the outcomes the draw can have.
RandMasks(eps) ==
    IF eps = "one" THEN {[i \in Rows |-> TRUE]}
    ELSE IF eps = "zero" THEN {[i \in Rows |-> FALSE]}
    ELSE [Rows -> BOOLEAN]

\* np.random.rand draws from [0, 1): multiples of 1 / 2^Precision, held as
\* numerators. The draws considered are the smallest and the largest one.
RandOne == Pow(2, Precision)
RandVals == {0, RandOne - 1}

\* Variant that leaves the mask out.
IgnoreMask(q, mask) == q

\* q += batch.obs.mask : the boolean mask is added as 0 / 1.
AddMask(q, mask) ==
    [i \in DOMAIN q |->
        [a \in Actions |-> Float(q[i][a] + (IF mask[i][a] THEN RandOne ELSE 0))]]

\* DQNPolicy.add_exploration_noise with the draws rand_mask and q; raises when
\* forward has not set max_action_num.
AddExplorationNoise(act, is_ndarray, eps, mask, rand_mask, q, cur) ==
    IF ~is_ndarray \/ IsCloseToZero(eps) THEN [act |-> act, error |-> ""]
    ELSE IF cur = NoActionNum THEN [act |-> act, error |-> "AssertionError"]
    ELSE LET q2 == IF mask = NoMask THEN q ELSE AddMask(q, mask)
             rand_act == [i \in DOMAIN q2 |-> ArgMax(q2[i])]
         IN  [act |-> [i \in DOMAIN act |-> IF rand_mask[i] THEN rand_act[i] ELSE act[i]],
              error |-> ""]

\* DiscreteBCQPolicy.__init__: _log_tau of an unlikely_action_threshold that
\* is 0 (given as 0) or e^(-k) (given as k >= 1).
INF == FloatMax
LogTau(threshold) == IF threshold = 0 THEN 0 - Infinity ELSE 0 - threshold

\* DiscreteBCQPolicy.forward: the filter mask and the action.
Ratio(imitation_logits) ==
    [i \in DOMAIN imitation_logits |->
        [a \in Actions |-> Float(imitation_logits[i][a] - RowMax(imitation_logits[i]))]]

Filtered(imitation_logits, log_tau) ==
    LET ratio == Ratio(imitation_logits)
    IN  [i \in DOMAIN ratio |-> [a \in Actions |-> ratio[i][a] < log_tau]]

BCQForward(q_value, imitation_logits, log_tau) ==
    LET mask == Filtered(imitation_logits, log_tau)
        masked == [i \in DOMAIN q_value |->
                    [a \in Actions |->
                        Float(q_value[i][a] - Float(INF * (IF mask[i][a] THEN 1 ELSE 0)))]]
    IN  [act |-> [i \in DOMAIN masked |-> ArgMax(masked[i])],
         q_value |-> q_value, imitation_logits |-> imitation_logits]

\* Inputs. Logits: around zero, at the precision boundary and one binade above.
LogitVals == {0 - Pow(2, Precision), 0, 1, Pow(2, Precision + 1)}
QVals == {0 - FloatMax, 0 - 1, 0, FloatMax}
ImitationVals == 0..Precision
ThresholdVals == 0..Precision

Tensors(V) == [Rows -> [Actions -> V]]
Masks == [Rows -> [Actions -> BOOLEAN]]
MaskOptions == {NoMask} \cup Masks
ActArrays == [Rows -> Actions]

\* The algorithm object takes no part: it is constructed and idle.
NoTraining ==
    /\ tau = 0
    /\ freq = 1
    /\ actorFreq = 1
    /\ critic2Given = FALSE
    /\ pc = "idle"
    /\ error = ""
    /\ param = [n \in Nets |-> NoParam]
    /\ pairs = {}
    /\ old = [s \in ShadowNets |-> "unset"]
    /\ optims = {}
    /\ iter = 0
    /\ cnt = 0
    /\ critic_gradient_step = 0
    /\ batch = <<>>
    /\ trace = <<>>
    /\ callLog = <<>>
    /\ ver = 0
    /\ nupd = [s \in ShadowNets |-> 0]
    /\ gamma = 1
    /\ estimation_step = 1
    /\ gae_lambda = 1
    /\ ensemble_size = 1
    /\ subset_size = 1
    /\ rew_norm = FALSE
    /\ max_batchsize = 1
    /\ ret_rms = RmsInit
    /\ buffer = <<>>
    /\ result = <<>>
    /\ fitted = <<>>
    /\ processed = 0
    /\ last_actor_loss = 0
    /\ reported = NoLoss
    /\ actor_loss = NoLoss

\* A policy that has not yet run forward, or one that has.
InitPolicy ==
    /\ alg \in {"DQN", "DiscreteBCQ"}
    /\ NoTraining
    /\ max_action_num \in {NoActionNum, NumActions}
    /\ op = "new"
    /\ inp = <<>>
    /\ out = <<>>
    /\ replay = <<>>
    /\ history = <<>>

\* One call is made on a policy object.
PolicyCall(name, args, ret, num) ==
    /\ op' = name
    /\ inp' = args
    /\ out' = ret
    /\ max_action_num' = num
    /\ UNCHANGED <<core, hyper, engine, logging, replay, history>>

DQNPolicyForward ==
    /\ alg = "DQN"
    /\ op = "new"
    /\ \E logits \in Tensors(LogitVals), mask \in MaskOptions :
          PolicyCall("forward", [logits |-> logits, mask |-> mask],
                     DQNForward(logits, mask), MaxActionNum(max_action_num))

DQNPolicyAddExplorationNoise ==
    /\ alg = "DQN"
    /\ op = "new"
    /\ \E act \in ActArrays, is_ndarray \in BOOLEAN, eps \in EpsVals, mask \in MaskOptions :
          \E rand_mask \in RandMasks(eps), q \in Tensors(RandVals) :
             PolicyCall("add_exploration_noise",
                        [act |-> act, is_ndarray |-> is_ndarray, eps |-> eps, mask |-> mask,
                         rand_mask |-> rand_mask],
                        AddExplorationNoise(act, is_ndarray, eps, mask, rand_mask, q,
                                            max_action_num),
                        max_action_num)

DiscreteBCQPolicyForward ==
    /\ alg = "DiscreteBCQ"
    /\ op = "new"
    /\ \E q_value \in Tensors(QVals), imitation_logits \in Tensors(ImitationVals),
          threshold \in ThresholdVals :
          PolicyCall("bcq_forward",
                     [q_value |-> q_value, imitation_logits |-> imitation_logits,
                      log_tau |-> LogTau(threshold)],
                     BCQForward(q_value, imitation_logits, LogTau(threshold)),
                     MaxActionNum(max_action_num))

NextPolicy ==
    \/ DQNPolicyForward
    \/ DQNPolicyAddExplorationNoise
    \/ DiscreteBCQPolicyForward

SpecPolicy == InitPolicy /\ [][NextPolicy]_vars

\* ------------------------------------------------------ replay buffer
\* The circular replay buffer and its prioritized variant. env_num rings of
\* Capacity slots each; the absolute index of slot k of ring e is
\* e * Capacity + k. A stored transition carries the number of the write that
\* stored it, counted per ring, and its done flag. Priorities are integers:
\* alpha is 1 and the epsilon added to an error is one unit.
Capacity == 5       \* transitions per sub-buffer
EnvNum == 2         \* env_num is drawn from 1..EnvNum
MaxWrites == 7      \* add calls explored
MaxError == 1       \* errors passed to update_priority are -MaxError..MaxError
MaxUpdates == 2     \* update_priority calls explored

NoTransition == [seq |-> 0, done |-> FALSE]
NoIndex == 0 - 1

Indices(n) == 0..(n * Capacity - 1)
RingOf(i) == i \div Capacity
SlotOf(i) == i % Capacity

\* A buffer with nothing written; every leaf of the priority tree is 0.
EmptyBuffer(n) ==
    [env_num |-> n,
     data |-> [i \in Indices(n) |-> NoTransition],
     cursor |-> [e \in 0..(n - 1) |-> 0],
     last_index |-> [e \in 0..(n - 1) |-> NoIndex],
     written |-> [e \in 0..(n - 1) |-> 0],
     weight |-> [i \in Indices(n) |-> 0],
     max_prio |-> 1]

Stored(rb) == {i \in DOMAIN rb.data : rb.data[i].seq > 0}
StoredIn(rb, e) == {i \in Stored(rb) : RingOf(i) = e}

\* Variant of next without the sentinel at the write frontier.
NextIndexNoSentinel(rb, i) == RingOf(i) * Capacity + ((SlotOf(i) + 1) % Capacity)

\* next(i): the following slot of the same ring, with wraparound; i itself at
\* the write frontier.
NextIndex(rb, i) ==
    IF i = rb.last_index[RingOf(i)] THEN i
    ELSE RingOf(i) * Capacity + ((SlotOf(i) + 1) % Capacity)

\* prev(i): the preceding slot of the same ring, with wraparound; i itself
\* when that slot is the write frontier or was never written.
PrevIndex(rb, i) ==
    LET p == RingOf(i) * Capacity + ((SlotOf(i) + Capacity - 1) % Capacity)
    IN  IF p = rb.last_index[RingOf(i)] \/ rb.data[p].seq = 0 THEN i ELSE p

\* Variant that inserts with the lowest priority.
InitWeightLowest(rb) == 1

\* The priority add gives a transition: the maximum current priority.
InitWeight(rb) == rb.max_prio

\* add(transition, env_id): writes at the cursor of the ring, advances the
\* cursor with wraparound, and sets the leaf of the written index.
BufferAdd(rb, e, done) ==
    LET i == e * Capacity + rb.cursor[e]
    IN  [rb EXCEPT !.data[i] = [seq |-> rb.written[e] + 1, done |-> done],
                   !.cursor[e] = (rb.cursor[e] + 1) % Capacity,
                   !.last_index[e] = i,
                   !.written[e] = rb.written[e] + 1,
                   !.weight[i] = InitWeight(rb)]

\* priority = (|error| + epsilon)^alpha
Priority(err) == Abs(err) + 1

\* update_priority(indices, errors) for one index.
UpdatePriority(rb, i, err) ==
    [rb EXCEPT !.weight[i] = Priority(err),
               !.max_prio = IF Priority(err) > rb.max_prio THEN Priority(err) ELSE rb.max_prio]

TotalWritten(rb) == SumSeq([k \in 1..rb.env_num |-> rb.written[k - 1]])

BufferCall(name, args, ret, rb, h) ==
    /\ op' = name
    /\ inp' = args
    /\ out' = ret
    /\ replay' = rb
    /\ history' = h
    /\ UNCHANGED <<core, hyper, engine, logging, max_action_num>>

\* The collector's buffer: VectorReplayBuffer(buffer_size, buffer_num).
InitReplay ==
    /\ alg = "DQN"
    /\ NoTraining
    /\ max_action_num = NoActionNum
    /\ op = "new"
    /\ inp = <<>>
    /\ out = <<>>
    /\ \E n \in 1..EnvNum : replay = EmptyBuffer(n)
    /\ history = <<>>

ReplayBufferAdd ==
    /\ replay # <<>>
    /\ history = <<>>
    /\ TotalWritten(replay) < MaxWrites
    /\ \E e \in 0..(replay.env_num - 1), done \in BOOLEAN :
          BufferCall("add", [env_id |-> e, done |-> done],
                     e * Capacity + replay.cursor[e],
                     BufferAdd(replay, e, done), history)

NextReplay == ReplayBufferAdd

SpecReplay == InitReplay /\ [][NextReplay]_vars

\* PrioritizedVectorReplayBuffer with one ring. history keeps, per index,
\* whether the priority is still the one add gave and what that was, and the
\* number of update_priority calls.
InitPrioritized ==
    /\ alg = "DQN"
    /\ NoTraining
    /\ max_action_num = NoActionNum
    /\ op = "new"
    /\ inp = <<>>
    /\ out = <<>>
    /\ replay = EmptyBuffer(1)
    /\ history = [fresh |-> [i \in Indices(1) |-> FALSE],
                  given |-> [i \in Indices(1) |-> 0],
                  updates |-> 0]

PrioritizedAdd ==
    /\ replay # <<>>
    /\ history # <<>>
    /\ TotalWritten(replay) < MaxWrites
    /\ LET i == replay.cursor[0]
       IN  BufferCall("add", [env_id |-> 0, done |-> FALSE], i,
                      BufferAdd(replay, 0, FALSE),
                      [history EXCEPT !.fresh[i] = TRUE, !.given[i] = replay.max_prio])

PrioritizedUpdatePriority ==
    /\ replay # <<>>
    /\ history # <<>>
    /\ history.updates < MaxUpdates
    /\ \E i \in Stored(replay), err \in (0 - MaxError)..MaxError :
          BufferCall("update_priority", [index |-> i, error |-> err], 0,
                     UpdatePriority(replay, i, err),
                     [history EXCEPT !.fresh[i] = FALSE, !.updates = history.updates + 1])

NextPrioritized ==
    \/ PrioritizedAdd
    \/ PrioritizedUpdatePriority

SpecPrioritized == InitPrioritized /\ [][NextPrioritized]_vars
\* ------------------------------------------------------------ properties

Constructed == pc \in {"idle", "update", "error"}

RECURSIVE SumSync(_, _, _)
SumSync(log, lo, hi) ==
    IF lo > hi THEN 0 ELSE log[lo].nsync + SumSync(log, lo + 1, hi)

\* C1: for a full-update algorithm constructed with target_update_freq = f > 0,
\* the i-th call of _update_with_batch sees the pre-increment counter i - 1 and
\* performs the full update of the lagged network exactly once when that counter
\* is a multiple of f and not at all otherwise; hence every window of f
\* consecutive calls holds exactly one full update.
C1_FullUpdateEveryFreqCalls ==
    (alg \in FullUpdateAlgs /\ freq > 0 /\ Constructed) =>
        /\ iter = Len(callLog)
        /\ \A i \in 1..Len(callLog) :
              /\ callLog[i].iter = i - 1
              /\ callLog[i].nsync = IF callLog[i].iter % freq = 0 THEN 1 ELSE 0
        /\ \A i \in 1..(Len(callLog) - freq + 1) : SumSync(callLog, i, i + freq - 1) = 1
        /\ ver = SumSync(callLog, 1, Len(callLog))
        /\ \A s \in ShadowsOf(pairs) : nupd[s] = ver

C1_Witness ==
    /\ alg \in FullUpdateAlgs
    /\ freq = 2
    /\ Len(callLog) = 4
    /\ callLog[2].nsync = 0
    /\ callLog[3].nsync = 1

\* C2 (as stated): every Polyak-update algorithm performs the lagged-network
\* update exactly once in each call of _update_with_batch.
C2_PolyakEveryCall ==
    (alg \in PolyakAlgs /\ Constructed) =>
        \A i \in 1..Len(callLog) : callLog[i].nsync = 1

\* C2 (amended): DDPG, REDQ and DiscreteSAC perform the lagged-network update
\* exactly once in each call of _update_with_batch; TD3 performs it exactly once
\* on the calls where the pre-increment counter _cnt is a multiple of
\* update_actor_freq and not at all on the other calls.
C2_PolyakEveryCallExceptTD3Delayed ==
    (alg \in PolyakAlgs /\ Constructed) =>
        \A i \in 1..Len(callLog) :
            IF alg = "TD3"
            THEN /\ callLog[i].iter = i - 1
                 /\ callLog[i].nsync = IF (i - 1) % actorFreq = 0 THEN 1 ELSE 0
            ELSE callLog[i].nsync = 1

C2_Witness ==
    /\ alg = "TD3"
    /\ actorFreq = 2
    /\ Len(callLog) = 3
    /\ callLog[2].nsync = 0
    /\ callLog[3].nsync = 1

\* The shadows C3 names for each algorithm.
C3_Shadows(a) ==
    CASE a = "DDPG" -> {"critic_old", "actor_old"}
      [] a = "TD3" -> {"critic_old", "critic2_old", "actor_old"}
      [] a = "DiscreteCRR" -> {"actor_old", "critic_old"}
      [] OTHER -> {}

\* C3: all shadows of one algorithm (DDPG: critic_old, actor_old; TD3:
\* critic_old, critic2_old, actor_old; DiscreteCRR: actor_old, critic_old) have
\* received the same number of updates, namely one per synchronization call.
C3_ShadowsUpdatedTogether ==
    Constructed =>
        \A s \in C3_Shadows(alg) : nupd[s] = ver

C3_Witness ==
    /\ alg = "TD3"
    /\ nupd["actor_old"] >= 2
    /\ nupd["critic2_old"] >= 2
    /\ param["actor_old"] # param["critic_old"]
EvIdx(tr, e) == {i \in 1..Len(tr) : tr[i].ev = e}

SyncIdx == EvIdx(trace, "sync")

ReadIdx == EvIdx(trace, "read")

GradIdx == EvIdx(trace, "grad")

\* The trace is that of a completed training step.
StepDone == pc = "idle" /\ Len(callLog) > 0

\* C4 (as stated): in every training step of an algorithm with a lagged
\* network, the step's synchronization precedes the step's target-value reads.
C4_SyncBeforeTargetReads ==
    (StepDone /\ pairs # {}) =>
        \A i \in SyncIdx : \A j \in ReadIdx : i < j

\* C4 (amended): in every training step of an algorithm with a lagged network
\* there is at most one synchronization, never between target reads and at the
\* same fixed point relative to the gradient steps in every step: in the
\* Q-learning family and DiscreteBCQ after the target reads of preprocess_batch
\* and before the gradient step, in DDPG, TD3, REDQ and DiscreteSAC after the
\* target reads and after the gradient steps; only in DiscreteCRR, which reads
\* its targets inside _update_with_batch, does it precede the target reads (and
\* the gradient step).
C4_SyncAtFixedPoint ==
    (StepDone /\ pairs # {}) =>
        /\ Cardinality(SyncIdx) <= 1
        /\ ReadIdx # {}
        /\ GradIdx # {}
        /\ \A i \in SyncIdx :
              /\ \A j \in ReadIdx : IF alg = "DiscreteCRR" THEN i < j ELSE j < i
              /\ \A j \in GradIdx : IF alg \in FullUpdateAlgs THEN i < j ELSE j < i

C4_Witness ==
    /\ StepDone
    /\ alg = "DQN"
    /\ freq = 2
    /\ Len(callLog) = 3
    /\ SyncIdx # {}
    /\ \E i \in ReadIdx : trace[i].from = "model_old"

\* C5: within one training step all target values of the batch are read from
\* one version of the shadow parameters: every index of the batch is read, all
\* reads see the same number of completed synchronizations, and no
\* synchronization lies between two reads.
C5_TargetsFromOneShadowVersion ==
    /\ \A i \in ReadIdx : \A j \in ReadIdx :
          /\ trace[i].ver = trace[j].ver
          /\ ~(\E k \in SyncIdx : i < k /\ k < j)
    /\ ReadIdx # {} => {trace[i].idx : i \in ReadIdx} = 1..BatchSize
    /\ (pc = "update" /\ alg \in QLearningAlgs \cup {"DiscreteBCQ"} \cup PolyakAlgs) =>
          /\ Cardinality(ReadIdx) = BatchSize
          /\ \A k \in 1..BatchSize : batch[k] = param[TargetQFrom(alg, freq)]

C5_Witness ==
    /\ pc = "update"
    /\ alg = "TD3"
    /\ ver >= 1
    /\ Cardinality(ReadIdx) = BatchSize
    /\ \A i \in ReadIdx : trace[i].ver = ver /\ "critic2_old" \in trace[i].nets

\* C6: a shadow network's parameters change only in a synchronization call: a
\* step without synchronization leaves every shadow unchanged whatever the
\* gradient steps do to the sources, and in a step with a synchronization the
\* shadow enters the synchronization with the value it had before the step and
\* leaves the step with the value the synchronization gave it.
C6_ShadowChangesOnlyInSync ==
    [][pc # "new" =>
        \A s \in ShadowNets :
            LET k == EvIdx(trace', "sync") IN
            IF ver' = ver
            THEN param'[s] = param[s]
            ELSE \A i \in k : /\ trace'[i].pre[s] = param[s]
                              /\ param'[s] = trace'[i].snap[s]]_vars

C6_Witness ==
    /\ StepDone
    /\ alg = "DQN"
    /\ freq = 2
    /\ Len(callLog) = 2
    /\ callLog[2].nsync = 0
    /\ param["model_old"] # param["model"]

C8_FullUpdateCopiesSource ==
    \A i \in SyncIdx :
        (alg \in FullUpdateAlgs \/ tau = TauDen) =>
            /\ \A pr \in pairs : trace[i].snap[pr[2]] = trace[i].pre[pr[1]]
            /\ \A n \in Nets \ ShadowsOf(pairs) : trace[i].snap[n] = trace[i].pre[n]

C8_Witness ==
    /\ alg = "DDPG"
    /\ tau = TauDen
    /\ \E i \in SyncIdx :
          /\ trace[i].pre["critic_old"] # trace[i].pre["critic"]
          /\ trace[i].snap["critic_old"] = trace[i].pre["critic"]
          /\ trace[i].snap["actor_old"] = trace[i].pre["actor"]

\* C9: a Q-learning algorithm constructed with target_update_freq = 0 registers
\* no lagged network (model_old is None), never performs a lagged update, never
\* raises in _update_with_batch, and reads its target Q-values from the online
\* model.
C9_NoTargetNetwork ==
    (/\ alg \in QLearningAlgs /\ freq = 0 /\ pc # "new"
     /\ 0 <= gamma /\ gamma <= 1 /\ estimation_step > 0) =>
        /\ Constructed
        /\ pc # "error"
        /\ pairs = {}
        /\ old["model_old"] = "None"
        /\ param["model_old"] = NoParam
        /\ ver = 0
        /\ SyncIdx = {}
        /\ \A i \in 1..Len(callLog) : callLog[i].nsync = 0
        /\ \A i \in ReadIdx : trace[i].from = "model" /\ "model_old" \notin trace[i].nets
        /\ pc = "update" => \A k \in 1..BatchSize : batch[k] = param["model"]

C9_Witness ==
    /\ alg = "DQN"
    /\ freq = 0
    /\ pc = "update"
    /\ Len(callLog) = 2
    /\ iter = 2

\* C10 (as stated): a Polyak-update algorithm constructed with tau outside
\* (0, 1] is rejected at construction.
C10_TauOutsideHalfOpenRejected ==
    (alg \in PolyakAlgs /\ pc # "new" /\ ~(0 < tau /\ tau <= TauDen)) => pc = "rejected"

\* C10 (amended): a Polyak-update algorithm is rejected at construction exactly
\* when tau is outside the closed interval [0, 1]; tau = 0 is accepted.
C10_TauOutsideClosedRejected ==
    (alg \in PolyakAlgs /\ pc # "new") =>
        /\ ~(0 <= tau /\ tau <= TauDen) => pc = "rejected"
        /\ (/\ 0 <= tau /\ tau <= TauDen
            /\ 0 <= gamma /\ gamma <= 1
            /\ 0 < subset_size /\ subset_size <= ensemble_size) => pc # "rejected"
        /\ pc = "rejected" => pairs = {} /\ optims = {}

C10_Witness ==
    /\ alg = "REDQ"
    /\ tau > TauDen
    /\ pc = "rejected"

\* C11: an algorithm constructed with a discount factor outside [0, 1] is
\* rejected by its constructor (Q-learning family, DiscreteBCQ, off-policy
\* actor-critic family, Reinforce, DiscreteCRR, A2C); it never gets as far as
\* a training step.
C11_GammaOutsideRejected ==
    (pc # "new" /\ ~(0 <= gamma /\ gamma <= 1)) => pc = "rejected"

\* C12: an algorithm that takes estimation_step is rejected by its constructor
\* when estimation_step is not positive (Q-learning family, DiscreteBCQ, DDPG,
\* TD3, REDQ, DiscreteSAC).
C12_NonPositiveStepRejected ==
    (/\ alg \in QLearningAlgs \cup {"DiscreteBCQ"} \cup PolyakAlgs
     /\ pc # "new"
     /\ estimation_step <= 0) => pc = "rejected"

\* C13: REDQ constructed with subset_size > ensemble_size or subset_size <= 0
\* raises ValueError before the base constructor runs: whatever the other
\* arguments are, no AssertionError of the base constructor is seen, no lagged
\* network is registered and no optimizer is created.
C13_REDQSubsetSizeRejectedFirst ==
    (/\ alg = "REDQ"
     /\ pc # "new"
     /\ ~(0 < subset_size /\ subset_size <= ensemble_size)) =>
        /\ pc = "rejected"
        /\ error = "ValueError"
        /\ pairs = {}
        /\ optims = {}
        /\ \A n \in ShadowNets : param[n] = NoParam /\ old[n] = "unset"

C13_Witness ==
    /\ alg = "REDQ"
    /\ subset_size > ensemble_size
    /\ ~(0 <= tau /\ tau <= TauDen)
    /\ pc = "rejected"
    /\ error = "ValueError"

\* ---- return normalization
NormalizingAlgs == {"A2C", "Reinforce", "DiscreteCRR"}

RECURSIVE Flatten(_)
Flatten(seqs) == IF seqs = <<>> THEN <<>> ELSE Head(seqs) \o Flatten(Tail(seqs))

\* The statistics of a sample taken as a whole.
StatsOf(xs) == [count |-> Len(xs), sum |-> SumSeq(xs), sumsq |-> SumSquares(xs)]

\* The positions in the last preprocessing at which ret_rms was used for e.
EventsAt(e) == {i \in DOMAIN result.tr : result.tr[i].ev = e}

\* C14: with return normalization enabled, the returns of the k-th processed
\* batch are scaled with the statistics of the unnormalized returns of batches
\* 1..k-1 only, and ret_rms takes in batch k's unnormalized returns after that
\* scaling, in the GAE path (A2C) and in the Monte-Carlo path (Reinforce,
\* DiscreteCRR).
C14_NormalizationLagsOneBatch ==
    (alg \in NormalizingAlgs /\ rew_norm /\ processed > 0) =>
        LET k == processed
            before == StatsOf(Flatten(SubSeq(fitted, 1, k - 1)))
        IN  /\ Len(fitted) = k
            /\ fitted[k] = result.unnorm
            /\ \A i \in DOMAIN buffer :
                   result.returns[i] =
                       Scaled(result.unnorm[i],
                              IF alg = "A2C" THEN 0 ELSE RmsMean(before),
                              SqrtVarEps(before))
            /\ \A i \in EventsAt("normalize") : result.tr[i].rms = before
            /\ \A i \in EventsAt("normalize") : \A j \in EventsAt("update") :
                   i < j /\ result.tr[j].rms = before /\ result.tr[j].arg = result.unnorm
            /\ EventsAt("normalize") # {} /\ EventsAt("update") # {}
            /\ ret_rms = StatsOf(Flatten(fitted))

\* The second batch of a Monte-Carlo path is scaled with statistics that
\* differ from the initial ones and from the ones that include the batch.
C14_Witness ==
    /\ alg = "Reinforce"
    /\ rew_norm
    /\ processed = 2
    /\ RmsMean(result.pre) # 0
    /\ RmsMean(ret_rms) # RmsMean(result.pre)

\* C15: in the GAE preprocessing with normalization enabled, the factor that
\* unnormalizes v_s and v_s_ and the divisor that renormalizes the returns of
\* the same batch are read from the same state of ret_rms, the one the
\* previous batch left: ret_rms is not updated between the two uses.
C15_UnnormalizeAndRenormalizeSameStats ==
    (alg = "A2C" /\ rew_norm /\ processed > 0) =>
        /\ EventsAt("unnormalize") # {} /\ EventsAt("normalize") # {}
        /\ \A i \in EventsAt("unnormalize") : \A j \in EventsAt("normalize") :
               /\ i < j
               /\ result.tr[i].rms = result.tr[j].rms
               /\ result.tr[i].rms = result.pre
               /\ \A u \in EventsAt("update") : ~(i < u /\ u < j)
        /\ \A i \in DOMAIN buffer :
               /\ result.v_s[i] = buffer[i].vs * SqrtVarEps(result.pre)
               /\ result.v_s_[i] = buffer[i].vnext * SqrtVarEps(result.pre)
               /\ result.returns[i].den = SqrtVarEps(result.pre)

\* A second batch whose factor is not 1 and differs from the one the updated
\* statistics would give.
C15_Witness ==
    /\ alg = "A2C"
    /\ rew_norm
    /\ processed = 2
    /\ SqrtVarEps(result.pre) > 1
    /\ SqrtVarEps(ret_rms) # SqrtVarEps(result.pre)

\* C16: when the value estimates for GAE are computed, no chunk the critic
\* evaluates is larger than max_batchsize, whatever the batch length.
C16_ChunksWithinMaxBatchsize ==
    (alg = "A2C" /\ processed > 0) =>
        \A i \in DOMAIN result.chunks : result.chunks[i] <= max_batchsize

\* The chunks cover the batch, and only a batch length that is not a multiple
\* of max_batchsize yields a chunk above it: the last one, which took in the
\* remainder.
C16_OnlyMergedLastChunkExceeds ==
    (alg = "A2C" /\ processed > 0) =>
        /\ SumSeq(result.chunks) = Len(buffer)
        /\ \A i \in DOMAIN result.chunks :
               result.chunks[i] > max_batchsize =>
                   /\ i = Len(result.chunks)
                   /\ Len(buffer) % max_batchsize > 0
                   /\ result.chunks[i] = max_batchsize + (Len(buffer) % max_batchsize)

\* ---- n-step return
\* The indices the forward walk from i visits: at most estimation_step of
\* them, none beyond the recorded data, none after an episode boundary.
Walk(i) ==
    {j \in i..Len(buffer) :
        /\ j - i < estimation_step
        /\ \A k \in i..(j - 1) : ~Done(buffer, k)}

WalkReachedTerminated(i) == \E j \in Walk(i) : buffer[j].kind = "terminated"

WalkRewards(i) ==
    SumSeq([k \in 1..Cardinality(Walk(i)) |-> Pow(gamma, k - 1) * buffer[i + k - 1].rew])

\* The last index of the walk from i.
WalkLast(i) == i + Cardinality(Walk(i)) - 1

\* C17: in the n-step return, for every start index the bootstrap term
\* gamma^m * V is added exactly when the forward walk of up to n steps did not
\* reach a terminated step: a walk that ends at a truncated step is given the
\* value at the cutoff, a walk that reaches a terminated step is given none,
\* and no reward after the terminated step is accumulated.
C17_BootstrapUnlessTerminated ==
    (alg \in NStepAlgs /\ processed > 0) =>
        \A i \in DOMAIN buffer :
            result.unnorm[i] =
                WalkRewards(i)
                    + (IF WalkReachedTerminated(i) THEN 0
                       ELSE Pow(gamma, Cardinality(Walk(i))) * buffer[WalkLast(i)].vnext)

\* A batch in which a two-step walk reaches a terminated step with a recorded
\* step after it, and a walk ends at a truncated step.
C17_Witness ==
    /\ alg \in NStepAlgs
    /\ processed > 0
    /\ estimation_step = 2
    /\ gamma = 1
    /\ Len(buffer) = 3
    /\ buffer[1].kind = "none" /\ buffer[2].kind = "terminated" /\ buffer[3].kind = "truncated"
    /\ buffer[3].rew > 0
    /\ result.unnorm[1] = buffer[1].rew + buffer[2].rew
    /\ result.unnorm[3] = buffer[3].rew + buffer[3].vnext

\* ---- Monte-Carlo return
\* The indices from i to the end of i's episode, or to the end of the
\* recorded data if the episode has not ended.
EpisodeTail(i) == {j \in i..Len(buffer) : \A k \in i..(j - 1) : ~Done(buffer, k)}

TailLast(i) == i + Cardinality(EpisodeTail(i)) - 1

TailRewards(i) ==
    SumSeq([k \in 1..Cardinality(EpisodeTail(i)) |-> Pow(gamma, k - 1) * buffer[i + k - 1].rew])

\* The discounted rewards up to the end of the episode, plus the discounted
\* value of what follows the last recorded step unless that step is terminated.
MonteCarloReturn(i) ==
    TailRewards(i)
        + (IF buffer[TailLast(i)].kind = "terminated" THEN 0
           ELSE Pow(gamma, Cardinality(EpisodeTail(i))) * result.v_s_[TailLast(i)])

\* C18: for a GAE computation with lambda = 1 the advantage of each transition
\* is its Monte-Carlo discounted return minus the value baseline V(s_i); the
\* returns Reinforce and DiscreteCRR add to a batch are this case.
C18_LambdaOneIsMonteCarlo ==
    /\ (alg = "A2C" /\ gae_lambda = 1 /\ processed > 0) =>
           \A i \in DOMAIN buffer : result.adv[i] = MonteCarloReturn(i) - result.v_s[i]
    /\ (alg \in {"Reinforce", "DiscreteCRR"} /\ processed > 0) =>
           \A i \in DOMAIN buffer : result.unnorm[i] = MonteCarloReturn(i)

\* A lambda = 1 advantage that spans three steps and differs from the one-step
\* residual.
C18_Witness ==
    /\ alg = "A2C"
    /\ processed > 0
    /\ gae_lambda = 1
    /\ gamma = 1
    /\ Len(buffer) = 3
    /\ Cardinality(EpisodeTail(1)) = 3
    /\ result.adv[1] # buffer[1].rew + result.v_s_[1] - result.v_s[1]

\* C19: the GAE backward recursion never crosses an episode boundary: at every
\* step marked terminated or truncated the advantage is that step's own
\* residual, with nothing from the advantage of the following index.
C19_AdvantageResetsAtBoundary ==
    (alg = "A2C" /\ processed > 0) =>
        \A i \in DOMAIN buffer :
            Done(buffer, i) =>
                result.adv[i] =
                    buffer[i].rew
                        + (IF buffer[i].kind = "terminated" THEN 0 ELSE gamma * result.v_s_[i])
                        - result.v_s[i]

\* A truncated step followed by a step of another episode whose advantage is
\* not zero, with a discount that would let it through.
C19_Witness ==
    /\ alg = "A2C"
    /\ processed > 0
    /\ gamma = 1
    /\ gae_lambda = 1
    /\ Len(buffer) >= 2
    /\ buffer[1].kind = "truncated"
    /\ result.adv[2] # 0
    /\ result.adv[1] = buffer[1].rew + result.v_s_[1] - result.v_s[1]

C30_DisabledNormalizationKeepsStats ==
    (alg \in NormalizingAlgs /\ ~rew_norm) =>
        /\ ret_rms = RmsInit
        /\ fitted = <<>>
        /\ processed > 0 =>
               /\ result.tr = <<>>
               /\ result.pre = RmsInit
               /\ \A i \in DOMAIN buffer :
                      result.returns[i] = [num |-> result.unnorm[i], den |-> 1]
               /\ alg \in {"Reinforce", "DiscreteCRR"} =>
                      \A i \in DOMAIN buffer : result.v_s_[i] = RmsMean(RmsInit)

\* A second batch processed without normalization whose returns are not zero.
C30_Witness ==
    /\ alg = "Reinforce"
    /\ ~rew_norm
    /\ processed = 2
    /\ Len(buffer) = 3
    /\ \A i \in DOMAIN buffer : result.unnorm[i] > 0

\* C24: DiscreteCRR constructed with target_update_freq = 0 is constructed
\* successfully, holds the source actor and the source critic themselves as
\* actor_old and critic_old, and performs no lagged update on any
\* _update_with_batch call.
C24_CRRWithoutTargetConstructed ==
    (alg = "DiscreteCRR" /\ freq = 0 /\ GammaAccepted(gamma) /\ pc # "new") =>
        /\ pc # "rejected"
        /\ error = ""
        /\ old["actor_old"] = "actor"
        /\ old["critic_old"] = "critic"
        /\ \A s \in ShadowNets : nupd[s] = 0

\* C25: DiscreteBCQ constructed with target_update_freq = 0 runs without a
\* target network: the target computation and every _update_with_batch call
\* complete without error, and no lagged update is performed.
C25_BCQWithoutTargetRuns ==
    (/\ alg = "DiscreteBCQ"
     /\ freq = 0
     /\ GammaAccepted(gamma)
     /\ EstimationStepAccepted(estimation_step)) =>
        /\ pc \in {"new", "idle", "update"}
        /\ error = ""
        /\ \A s \in ShadowNets : nupd[s] = 0

\* ---- delayed actor updates
\* The calls among from..to in which the optimizer (or alpha) o was stepped.
CallsStepping(o, from, to) == {k \in from..to : o \in callLog[k].steps}

\* C26: in TD3 both critics take an optimizer step on every call, the actor
\* takes one exactly on the calls whose pre-increment counter _cnt is a
\* multiple of update_actor_freq, starting with the first call, that is once
\* in every update_actor_freq consecutive calls; the actor_loss reported by a
\* call without actor update is the value computed at the most recent actor
\* update.
C26_TD3DelayedActor ==
    (alg = "TD3" /\ pc \in {"idle", "update"}) =>
        /\ cnt = Len(callLog)
        /\ \A k \in DOMAIN callLog :
               /\ callLog[k].iter = k - 1
               /\ {"critic_optim", "critic2_optim"} \subseteq callLog[k].steps
               /\ "policy_optim" \in callLog[k].steps <=> (k - 1) % actorFreq = 0
        /\ \A k \in 1..(Len(callLog) - actorFreq + 1) :
               Cardinality(CallsStepping("policy_optim", k, k + actorFreq - 1)) = 1
        /\ Len(callLog) > 0 =>
               /\ actor_loss # NoLoss
               /\ reported = actor_loss
               /\ last_actor_loss = actor_loss

\* The fourth call with update_actor_freq = 2 updates no actor and reports
\* the loss computed in the third call.
C26_Witness ==
    /\ alg = "TD3"
    /\ actorFreq = 2
    /\ pc = "idle"
    /\ Len(callLog) = 4
    /\ "policy_optim" \notin callLog[4].steps
    /\ "policy_optim" \in callLog[3].steps
    /\ reported = 2

\* C27: in REDQ the actor and alpha are updated on a call exactly when the
\* number of critic gradient steps performed so far, that call's included, is
\* a multiple of actor_delay: actor_delay critic updates precede each actor
\* update and the first actor_delay - 1 calls update no actor.
C27_REDQActorDelay ==
    (alg = "REDQ" /\ pc \in {"idle", "update"}) =>
        /\ critic_gradient_step = Len(callLog)
        /\ \A k \in DOMAIN callLog :
               /\ "critic_optim" \in callLog[k].steps
               /\ "policy_optim" \in callLog[k].steps <=> k % actorFreq = 0
               /\ "alpha" \in callLog[k].steps <=> k % actorFreq = 0
               /\ "policy_optim" \in callLog[k].steps =>
                      /\ k >= actorFreq
                      /\ CallsStepping("policy_optim", k - actorFreq + 1, k - 1) = {}
                      /\ Cardinality(CallsStepping("critic_optim", k - actorFreq + 1, k))
                             = actorFreq
        /\ CallsStepping("policy_optim", 1, Len(callLog)) = {} =>
               reported \in {NoLoss, 0}

\* With actor_delay = 2 the first call updates no actor, the second does.
C27_Witness ==
    /\ alg = "REDQ"
    /\ actorFreq = 2
    /\ pc = "idle"
    /\ Len(callLog) = 3
    /\ "policy_optim" \notin callLog[1].steps
    /\ "policy_optim" \in callLog[2].steps
    /\ "policy_optim" \notin callLog[3].steps

\* The actions of row i that the mask of a forward / add_exploration_noise
\* call leaves available.
Available(mask, i) == {a \in Actions : mask[i][a]}

\* C23: DQNPolicy.forward never selects a masked action: whenever the
\* observation carries a mask with at least one available action, every masked
\* action's computed Q-value is strictly smaller than every available action's
\* Q-value and the argmax action is an available one, for all logits.
C23_MaskedActionNeverSelected ==
    (op = "forward" /\ inp.mask # NoMask) =>
        \A i \in Rows :
            Available(inp.mask, i) # {} =>
                /\ out.act[i] \in Available(inp.mask, i)
                /\ \A a \in Available(inp.mask, i), m \in Actions \ Available(inp.mask, i) :
                      out.q[i][m] < out.q[i][a]

\* C29: in DQNPolicy.add_exploration_noise a replaced action is an available
\* one whenever the observation carries a mask with at least one available
\* action; entries not selected for replacement are returned unchanged; with
\* eps = 0 the whole array is returned unchanged.
C29_NoiseRespectsMask ==
    (op = "add_exploration_noise" /\ out.error = "") =>
        /\ inp.eps = "zero" => out.act = inp.act
        /\ \A i \in Rows :
              /\ ~inp.rand_mask[i] => out.act[i] = inp.act[i]
              /\ (/\ inp.is_ndarray
                  /\ inp.eps # "zero"
                  /\ inp.rand_mask[i]
                  /\ inp.mask # NoMask
                  /\ Available(inp.mask, i) # {}) => out.act[i] \in Available(inp.mask, i)

\* An action that the mask forbids was replaced by an available one.
C29_Witness ==
    /\ op = "add_exploration_noise"
    /\ out.error = ""
    /\ inp.mask # NoMask
    /\ \E i \in Rows :
          /\ inp.rand_mask[i]
          /\ inp.act[i] \notin Available(inp.mask, i)
          /\ out.act[i] # inp.act[i]
          /\ out.act[i] \in Available(inp.mask, i)

\* C28: DiscreteBCQPolicy.forward always returns an action that passes the
\* imitation filter, for every q_value and imitation_logits: the selected
\* action's imitation logit minus the row maximum is at least log_tau.
C28_SelectedActionPassesFilter ==
    op = "bcq_forward" =>
        \A i \in Rows : ~Filtered(inp.imitation_logits, inp.log_tau)[i][out.act[i]]

\* The write numbers a ring of the buffer holds.
SeqsIn(rb, e) == {rb.data[i].seq : i \in StoredIn(rb, e)}

\* The writes a ring of Capacity slots still holds after w writes.
LastWrites(w) == {k \in 1..w : k > w - Capacity}

\* C21: after any sequence of adds, next(i) of the most recently written index
\* of a sub-buffer is i itself and next(i) of every other stored index is the
\* index holding the following write of the same sub-buffer, with wraparound;
\* prev is its inverse, with a self-loop at the oldest stored index; a ring
\* holds the last Capacity writes, so that after Capacity + 2 writes to a
\* single ring the two oldest transitions are gone and next / prev wrap.
C21_NextFollowsWriteOrder ==
    replay # <<>> =>
        \A e \in 0..(replay.env_num - 1) :
            /\ SeqsIn(replay, e) = LastWrites(replay.written[e])
            /\ \A i \in StoredIn(replay, e) :
                  /\ i = replay.last_index[e] <=> replay.data[i].seq = replay.written[e]
                  /\ IF i = replay.last_index[e]
                     THEN NextIndex(replay, i) = i
                     ELSE /\ NextIndex(replay, i) \in StoredIn(replay, e)
                          /\ replay.data[NextIndex(replay, i)].seq = replay.data[i].seq + 1
                  /\ IF replay.data[i].seq - 1 \in SeqsIn(replay, e)
                     THEN /\ PrevIndex(replay, i) \in StoredIn(replay, e)
                          /\ replay.data[PrevIndex(replay, i)].seq = replay.data[i].seq - 1
                     ELSE PrevIndex(replay, i) = i
            /\ (replay.env_num = 1 /\ replay.written[e] = Capacity + 2) =>
                  /\ SeqsIn(replay, e) = 3..(Capacity + 2)
                  /\ NextIndex(replay, Capacity - 1) = 0
                  /\ PrevIndex(replay, 0) = Capacity - 1
                  /\ NextIndex(replay, 1) = 1
                  /\ PrevIndex(replay, 2) = 2

\* One ring, Capacity + 2 writes, and an episode boundary that is not the
\* frontier.
C21_Witness ==
    /\ replay # <<>>
    /\ history = <<>>
    /\ replay.env_num = 1
    /\ replay.written[0] = Capacity + 2
    /\ replay.last_index[0] = 1
    /\ replay.data[Capacity - 1].done
    /\ NextIndex(replay, Capacity - 1) = 0

\* C22: a transition written by add holds the buffer's current maximum
\* priority until update_priority is called for its index.
C22_FreshHoldsCurrentMaximum ==
    (replay # <<>> /\ history # <<>>) =>
        \A i \in Stored(replay) : history.fresh[i] => replay.weight[i] = replay.max_prio

\* C22, amended: a transition written by add, also one that overwrites an old
\* transition, is given the maximum priority the buffer has at the time of the
\* add and keeps that priority until update_priority is called for its index;
\* it never exceeds the current maximum.
C22_FreshKeepsMaximumAtAdd ==
    (replay # <<>> /\ history # <<>>) =>
        \A i \in Stored(replay) :
            history.fresh[i] =>
                /\ replay.weight[i] = history.given[i]
                /\ replay.weight[i] <= replay.max_prio

\* An overwriting transition, not yet updated, that was given a maximum an
\* earlier update had raised, next to one that an update has left below the
\* current maximum.
C22_Witness ==
    /\ replay # <<>>
    /\ history # <<>>
    /\ \E i, j \in Stored(replay) :
          /\ replay.data[i].seq > Capacity
          /\ history.fresh[i]
          /\ replay.weight[i] > 1
          /\ history.fresh[j]
          /\ replay.weight[j] < replay.max_prio

====
